---- MODULE Spec2Model ----
(***************************************************************************)
(* A model of the SalaazConverter class of src/app.py: platform detection, *)
(* column mapping, category resolution, the record transformer and its     *)
(* post-processing.                                                        *)
(*                                                                         *)
(* Python strings are sequences of one-character strings, so that lower(), *)
(* strip(), split(), "in" and re.sub act on characters as they do in the   *)
(* code.  An Optional value or a DataFrame cell is a tagged record: None   *)
(* (and pandas' NaN) is NULL, a str is StrVal(s), an int is IntVal(n).           *)
(***************************************************************************)
EXTENDS Integers, Sequences, FiniteSets, TLC

VARIABLES
  categories_df,          \* self.categories_df: NULL or a Table
  sub_categories_df,      \* self.sub_categories_df
  sub_sub_categories_df,  \* self.sub_sub_categories_df
  df,                     \* the caller's source DataFrame
  mapping,                \* the caller's field mapping (an ordered dict)
  platform,               \* the caller's platform (a cell: NULL or Str)
  op,                     \* the operation called last
  arg,                    \* the argument of a pure operation, as typed so far
  ret,                    \* what the last operation returned
  typed,                  \* how many pieces of arg have been typed
  calls,                  \* transform_data calls made on the current inputs
  first                   \* the inputs and the output of the first of them

vars == <<categories_df, sub_categories_df, sub_sub_categories_df, df,
          mapping, platform, op, arg, ret, typed, calls, first>>

-----------------------------------------------------------------------------
(* Values *)

NULL == [t |-> "null"]

StrVal(s) == [t |-> "str", s |-> s]

IntVal(n) == [t |-> "int", n |-> n]

IsNull(v) == v.t = "null"

\* What no operation has returned yet.
NotCalled == [t |-> "not_called"]

-----------------------------------------------------------------------------
(* Python's str methods, on sequences of characters *)

UpperChars ==
  <<"A","B","C","D","E","F","G","H","I","J","K","L","M",
    "N","O","P","Q","R","S","T","U","V","W","X","Y","Z">>

LowerChars ==
  <<"a","b","c","d","e","f","g","h","i","j","k","l","m",
    "n","o","p","q","r","s","t","u","v","w","x","y","z">>

DigitChars == <<"0","1","2","3","4","5","6","7","8","9">>

Range(s) == {s[i] : i \in 1..Len(s)}

\* The lower-case letter of each upper-case letter.
ToLower == [c \in Range(UpperChars) |-> LowerChars[CHOOSE i \in 1..26 : UpperChars[i] = c]]

LowerChar(c) == IF c \in DOMAIN ToLower THEN ToLower[c] ELSE c

\* str.lower()
Lower(s) == [i \in 1..Len(s) |-> LowerChar(s[i])]

IsSpace(c) == c \in {" ", "\n", "\t", "\r"}

Digits == Range(DigitChars)

\* \d of the re module, on the characters of the model
IsDigit(c) == c \in Digits

WordChars == Range(LowerChars) \cup Range(UpperChars) \cup Digits \cup {"_"}

\* \w of the re module, on the characters of the model
IsWord(c) == c \in WordChars

RECURSIVE LStrip(_)
LStrip(s) == IF s # <<>> /\ IsSpace(Head(s)) THEN LStrip(Tail(s)) ELSE s

RECURSIVE RStrip(_)
RStrip(s) ==
  IF s # <<>> /\ IsSpace(s[Len(s)]) THEN RStrip(SubSeq(s, 1, Len(s) - 1)) ELSE s

\* str.strip()
Strip(s) == RStrip(LStrip(s))

\* str.startswith(prefix)
StartsWith(s, prefix) ==
  Len(prefix) <= Len(s) /\ SubSeq(s, 1, Len(prefix)) = prefix

\* needle in hay
Contains(hay, needle) ==
  \E i \in 0..(Len(hay) - Len(needle)) : SubSeq(hay, i + 1, i + Len(needle)) = needle

\* x in list
InList(x, list) == \E i \in 1..Len(list) : list[i] = x

\* list.index(x), 1-based here
IndexOf(x, list) == CHOOSE i \in 1..Len(list) : list[i] = x /\ \A j \in 1..(i - 1) : list[j] # x

\* str.split(sep) for a non-empty literal separator: left to right, no overlap
RECURSIVE SplitFrom(_, _, _)
SplitFrom(s, sep, cur) ==
  IF s = <<>> THEN <<cur>>
  ELSE IF StartsWith(s, sep)
       THEN <<cur>> \o SplitFrom(SubSeq(s, Len(sep) + 1, Len(s)), sep, <<>>)
       ELSE SplitFrom(Tail(s), sep, Append(cur, Head(s)))

Split(s, sep) == SplitFrom(s, sep, <<>>)

\* re.split(r'[...]', s) for a character class
RECURSIVE SplitClassFrom(_, _, _)
SplitClassFrom(s, class, cur) ==
  IF s = <<>> THEN <<cur>>
  ELSE IF Head(s) \in class
       THEN <<cur>> \o SplitClassFrom(Tail(s), class, <<>>)
       ELSE SplitClassFrom(Tail(s), class, Append(cur, Head(s)))

SplitClass(s, class) == SplitClassFrom(s, class, <<>>)

\* sep.join(list)
RECURSIVE Join(_, _)
Join(list, sep) ==
  IF list = <<>> THEN <<>>
  ELSE IF Len(list) = 1 THEN list[1]
  ELSE list[1] \o sep \o Join(Tail(list), sep)

\* str.replace(old, new) for a one-character old
ReplaceChar(s, old, new) ==
  LET R[i \in 0..Len(s)] ==
        IF i = 0 THEN <<>>
        ELSE R[i - 1] \o (IF s[i] = old THEN new ELSE <<s[i]>>)
  IN R[Len(s)]

\* An ordered dict is a sequence of <<key, value>> pairs with distinct keys.
DictHas(d, k) == \E i \in 1..Len(d) : d[i][1] = k

DictGet(d, k) == d[CHOOSE i \in 1..Len(d) : d[i][1] = k][2]

\* d[k] = v: an existing key keeps its place, a new key goes last
DictSet(d, k, v) ==
  IF DictHas(d, k)
  THEN [i \in 1..Len(d) |-> IF d[i][1] = k THEN <<k, v>> ELSE d[i]]
  ELSE Append(d, <<k, v>>)

DictKeys(d) == [i \in 1..Len(d) |-> d[i][1]]

-----------------------------------------------------------------------------
(* SalaazConverter.__init__ *)

SALAAZ_REQUIRED_COLUMNS ==
  <<<<"n","a","m","e">>,
    <<"d","e","s","c","r","i","p","t","i","o","n">>,
    <<"p","r","i","c","e">>,
    <<"b","r","a","n","d">>,
    <<"c","a","t","e","g","o","r","y","_","i","d">>>>

SALAAZ_OPTIONAL_COLUMNS ==
  <<<<"s","u","b","_","c","a","t","e","g","o","r","y","_","i","d">>,
    <<"s","u","b","_","s","u","b","_","c","a","t","e","g","o","r","y","_","i","d">>,
    <<"c","e","r","t","i","f","i","c","a","t","i","o","n">>,
    <<"c","o","u","n","t","r","y","_","o","f","_","o","r","i","g","i","n">>,
    <<"d","e","t","a","i","l","s">>,
    <<"c","a","r","e">>,
    <<"s","i","z","e","_","f","i","t">>,
    <<"v","a","r","i","a","n","t","_","a","t","t","r","i","b","u","t","e","s">>,
    <<"v","a","r","i","a","n","t","_","q","u","a","n","t","i","t","y">>,
    <<"i","m","a","g","e","_","u","r","l","s">>>>

ALL_SALAAZ_COLUMNS == SALAAZ_REQUIRED_COLUMNS \o SALAAZ_OPTIONAL_COLUMNS

PLATFORM_MAPPINGS ==
  <<
    \* 'shopify'
    <<<<"s","h","o","p","i","f","y">>, <<
      \* 'name': ['Title', 'Product Title', 'title']
      <<<<"n","a","m","e">>,
        <<<<"T","i","t","l","e">>, <<"P","r","o","d","u","c","t"," ","T","i","t","l","e">>, <<"t","i","t","l","e">>>>>>,
      \* 'description': ['Body (HTML)', 'Description', 'body_html']
      <<<<"d","e","s","c","r","i","p","t","i","o","n">>,
        <<<<"B","o","d","y"," ","(","H","T","M","L",")">>, <<"D","e","s","c","r","i","p","t","i","o","n">>, <<"b","o","d","y","_","h","t","m","l">>>>>>,
      \* 'price': ['Variant Price', 'Price', 'price']
      <<<<"p","r","i","c","e">>,
        <<<<"V","a","r","i","a","n","t"," ","P","r","i","c","e">>, <<"P","r","i","c","e">>, <<"p","r","i","c","e">>>>>>,
      \* 'brand': ['Vendor', 'Brand', 'vendor']
      <<<<"b","r","a","n","d">>,
        <<<<"V","e","n","d","o","r">>, <<"B","r","a","n","d">>, <<"v","e","n","d","o","r">>>>>>,
      \* 'variant_attributes': ['Option1 Name', 'Option1 Value', 'Option2 Name', 'Option2 Value']
      <<<<"v","a","r","i","a","n","t","_","a","t","t","r","i","b","u","t","e","s">>,
        <<<<"O","p","t","i","o","n","1"," ","N","a","m","e">>, <<"O","p","t","i","o","n","1"," ","V","a","l","u","e">>, <<"O","p","t","i","o","n","2"," ","N","a","m","e">>, <<"O","p","t","i","o","n","2"," ","V","a","l","u","e">>>>>>,
      \* 'variant_quantity': ['Variant Inventory Qty', 'Inventory Quantity', 'inventory_quantity']
      <<<<"v","a","r","i","a","n","t","_","q","u","a","n","t","i","t","y">>,
        <<<<"V","a","r","i","a","n","t"," ","I","n","v","e","n","t","o","r","y"," ","Q","t","y">>, <<"I","n","v","e","n","t","o","r","y"," ","Q","u","a","n","t","i","t","y">>, <<"i","n","v","e","n","t","o","r","y","_","q","u","a","n","t","i","t","y">>>>>>,
      \* 'image_urls': ['Image Src', 'Image URL', 'image_src']
      <<<<"i","m","a","g","e","_","u","r","l","s">>,
        <<<<"I","m","a","g","e"," ","S","r","c">>, <<"I","m","a","g","e"," ","U","R","L">>, <<"i","m","a","g","e","_","s","r","c">>>>>>,
      \* 'category_source': ['Product Category', 'Type', 'Tags', 'Category']
      <<<<"c","a","t","e","g","o","r","y","_","s","o","u","r","c","e">>,
        <<<<"P","r","o","d","u","c","t"," ","C","a","t","e","g","o","r","y">>, <<"T","y","p","e">>, <<"T","a","g","s">>, <<"C","a","t","e","g","o","r","y">>>>>>
    >> >>,
    \* 'amazon'
    <<<<"a","m","a","z","o","n">>, <<
      \* 'name': ['Product Name', 'Title', 'item-name']
      <<<<"n","a","m","e">>,
        <<<<"P","r","o","d","u","c","t"," ","N","a","m","e">>, <<"T","i","t","l","e">>, <<"i","t","e","m","-","n","a","m","e">>>>>>,
      \* 'description': ['Product Description', 'Description', 'product-description']
      <<<<"d","e","s","c","r","i","p","t","i","o","n">>,
        <<<<"P","r","o","d","u","c","t"," ","D","e","s","c","r","i","p","t","i","o","n">>, <<"D","e","s","c","r","i","p","t","i","o","n">>, <<"p","r","o","d","u","c","t","-","d","e","s","c","r","i","p","t","i","o","n">>>>>>,
      \* 'price': ['Price', 'Standard Price', 'standard-price']
      <<<<"p","r","i","c","e">>,
        <<<<"P","r","i","c","e">>, <<"S","t","a","n","d","a","r","d"," ","P","r","i","c","e">>, <<"s","t","a","n","d","a","r","d","-","p","r","i","c","e">>>>>>,
      \* 'brand': ['Brand Name', 'Brand', 'brand-name']
      <<<<"b","r","a","n","d">>,
        <<<<"B","r","a","n","d"," ","N","a","m","e">>, <<"B","r","a","n","d">>, <<"b","r","a","n","d","-","n","a","m","e">>>>>>,
      \* 'variant_attributes': ['Color', 'Size', 'Style']
      <<<<"v","a","r","i","a","n","t","_","a","t","t","r","i","b","u","t","e","s">>,
        <<<<"C","o","l","o","r">>, <<"S","i","z","e">>, <<"S","t","y","l","e">>>>>>,
      \* 'variant_quantity': ['Quantity', 'Stock Quantity', 'quantity']
      <<<<"v","a","r","i","a","n","t","_","q","u","a","n","t","i","t","y">>,
        <<<<"Q","u","a","n","t","i","t","y">>, <<"S","t","o","c","k"," ","Q","u","a","n","t","i","t","y">>, <<"q","u","a","n","t","i","t","y">>>>>>,
      \* 'image_urls': ['Main Image URL', 'Image URL', 'main-image-url']
      <<<<"i","m","a","g","e","_","u","r","l","s">>,
        <<<<"M","a","i","n"," ","I","m","a","g","e"," ","U","R","L">>, <<"I","m","a","g","e"," ","U","R","L">>, <<"m","a","i","n","-","i","m","a","g","e","-","u","r","l">>>>>>,
      \* 'category_source': ['Category', 'Product Type', 'Department']
      <<<<"c","a","t","e","g","o","r","y","_","s","o","u","r","c","e">>,
        <<<<"C","a","t","e","g","o","r","y">>, <<"P","r","o","d","u","c","t"," ","T","y","p","e">>, <<"D","e","p","a","r","t","m","e","n","t">>>>>>
    >> >>,
    \* 'woocommerce'
    <<<<"w","o","o","c","o","m","m","e","r","c","e">>, <<
      \* 'name': ['Name', 'Product Name', 'post_title']
      <<<<"n","a","m","e">>,
        <<<<"N","a","m","e">>, <<"P","r","o","d","u","c","t"," ","N","a","m","e">>, <<"p","o","s","t","_","t","i","t","l","e">>>>>>,
      \* 'description': ['Description', 'Product Description', 'post_content']
      <<<<"d","e","s","c","r","i","p","t","i","o","n">>,
        <<<<"D","e","s","c","r","i","p","t","i","o","n">>, <<"P","r","o","d","u","c","t"," ","D","e","s","c","r","i","p","t","i","o","n">>, <<"p","o","s","t","_","c","o","n","t","e","n","t">>>>>>,
      \* 'price': ['Regular Price', 'Price', 'regular_price']
      <<<<"p","r","i","c","e">>,
        <<<<"R","e","g","u","l","a","r"," ","P","r","i","c","e">>, <<"P","r","i","c","e">>, <<"r","e","g","u","l","a","r","_","p","r","i","c","e">>>>>>,
      \* 'brand': ['Brand', 'Manufacturer', 'brand']
      <<<<"b","r","a","n","d">>,
        <<<<"B","r","a","n","d">>, <<"M","a","n","u","f","a","c","t","u","r","e","r">>, <<"b","r","a","n","d">>>>>>,
      \* 'variant_attributes': ['Attribute 1 name', 'Attribute 1 value(s)']
      <<<<"v","a","r","i","a","n","t","_","a","t","t","r","i","b","u","t","e","s">>,
        <<<<"A","t","t","r","i","b","u","t","e"," ","1"," ","n","a","m","e">>, <<"A","t","t","r","i","b","u","t","e"," ","1"," ","v","a","l","u","e","(","s",")">>>>>>,
      \* 'variant_quantity': ['Stock', 'Stock Quantity', 'stock']
      <<<<"v","a","r","i","a","n","t","_","q","u","a","n","t","i","t","y">>,
        <<<<"S","t","o","c","k">>, <<"S","t","o","c","k"," ","Q","u","a","n","t","i","t","y">>, <<"s","t","o","c","k">>>>>>,
      \* 'image_urls': ['Images', 'Gallery Images', 'images']
      <<<<"i","m","a","g","e","_","u","r","l","s">>,
        <<<<"I","m","a","g","e","s">>, <<"G","a","l","l","e","r","y"," ","I","m","a","g","e","s">>, <<"i","m","a","g","e","s">>>>>>,
      \* 'category_source': ['Categories', 'Product categories', 'Category']
      <<<<"c","a","t","e","g","o","r","y","_","s","o","u","r","c","e">>,
        <<<<"C","a","t","e","g","o","r","i","e","s">>, <<"P","r","o","d","u","c","t"," ","c","a","t","e","g","o","r","i","e","s">>, <<"C","a","t","e","g","o","r","y">>>>>>
    >> >>
  >>


-----------------------------------------------------------------------------
(* detect_platform *)

\* The inner loop of detect_platform: 1 when some possible column, lowered,
\* is in column_set (score += 1; break), else 0.
FieldHit(possible_columns, column_set) ==
  IF \E i \in 1..Len(possible_columns) : Lower(possible_columns[i]) \in column_set
  THEN 1 ELSE 0

\* score and total_possible after the loop over one platform's mappings
RECURSIVE PlatformScore(_, _)
PlatformScore(mappings, column_set) ==
  IF mappings = <<>> THEN [score |-> 0, total_possible |-> 0]
  ELSE LET rest == PlatformScore(Tail(mappings), column_set)
       IN [score |-> FieldHit(Head(mappings)[2], column_set) + rest.score,
           total_possible |-> 1 + rest.total_possible]

\* a / b > c / d for the quotients the code compares (0 when the total is 0)
ScoreGreater(x, y) ==
  LET xn == IF x.total_possible > 0 THEN x.score ELSE 0
      xd == IF x.total_possible > 0 THEN x.total_possible ELSE 1
      yn == IF y.total_possible > 0 THEN y.score ELSE 0
      yd == IF y.total_possible > 0 THEN y.total_possible ELSE 1
  IN xn * yd > yn * xd

\* score > 0.3
AboveThreshold(x) == x.total_possible > 0 /\ 10 * x.score > 3 * x.total_possible

\* A max that keeps the last of several largest items.
RECURSIVE MaxItemLast(_, _)
MaxItemLast(items, best) ==
  IF items = <<>> THEN best
  ELSE MaxItemLast(Tail(items),
                   IF ScoreGreater(best[2], Head(items)[2]) THEN best ELSE Head(items))

\* max(scores.items(), key=lambda x: x[1]): the first item with the largest key
RECURSIVE MaxItem(_, _)
MaxItem(items, best) ==
  IF items = <<>> THEN best
  ELSE MaxItem(Tail(items),
               IF ScoreGreater(Head(items)[2], best[2]) THEN Head(items) ELSE best)

detect_platform(columns) ==
  LET column_set == {Lower(columns[i]) : i \in 1..Len(columns)}
      scores == [i \in 1..Len(PLATFORM_MAPPINGS) |->
                   <<PLATFORM_MAPPINGS[i][1],
                     PlatformScore(PLATFORM_MAPPINGS[i][2], column_set)>>]
      best_platform == MaxItem(Tail(scores), Head(scores))
  IN IF AboveThreshold(best_platform[2]) THEN StrVal(best_platform[1]) ELSE NULL

-----------------------------------------------------------------------------
(* Python's truth value, str() and int() *)

\* bool(v): None, '' and 0 are false
\* A reference table read from its file: the rows, in file order, as records
\* of the id, the name and the parent id.
Table(rows) == [t |-> "table", rows |-> rows]

Truthy(v) ==
  CASE v.t = "null" -> FALSE
    [] v.t = "str" -> v.s # <<>>
    [] v.t = "int" -> v.n # 0

RECURSIVE NatStr(_)
NatStr(n) ==
  IF n < 10 THEN <<DigitChars[n + 1]>>
  ELSE Append(NatStr(n \div 10), DigitChars[(n % 10) + 1])

\* str(v)
PyStr(v) ==
  CASE v.t = "null" -> <<"n","a","n">>
    [] v.t = "str" -> v.s
    [] v.t = "int" -> IF v.n < 0 THEN <<"-">> \o NatStr(0 - v.n) ELSE NatStr(v.n)

DigitValue(c) == (CHOOSE i \in 1..10 : DigitChars[i] = c) - 1

RECURSIVE DigitsValue(_)
DigitsValue(s) ==
  IF s = <<>> THEN 0
  ELSE 10 * DigitsValue(SubSeq(s, 1, Len(s) - 1)) + DigitValue(s[Len(s)])

\* What an operation that raised leaves in place of its result.
RAISED == [t |-> "raised"]

\* int(v): an int is itself, a str of decimal digits (blanks around it
\* allowed) is its value, any other value raises ValueError.
PyInt(v) ==
  CASE v.t = "int" -> IntVal(v.n)
    [] v.t = "str" ->
         LET d == Strip(v.s)
         IN IF d # <<>> /\ \A i \in 1..Len(d) : IsDigit(d[i])
            THEN IntVal(DigitsValue(d)) ELSE RAISED
    [] OTHER -> RAISED

-----------------------------------------------------------------------------
(* parse_shopify_category *)

\* A parse that does not trim its segments.
parse_untrimmed(category_string) ==
  IF ~Truthy(category_string) \/ IsNull(category_string)
  THEN <<NULL, NULL, NULL>>
  ELSE LET parts == Split(PyStr(category_string), <<" ", ">", " ">>)
       IN <<IF Len(parts) > 0 THEN StrVal(parts[1]) ELSE NULL,
            IF Len(parts) > 1 THEN StrVal(parts[2]) ELSE NULL,
            IF Len(parts) > 2 THEN StrVal(parts[3]) ELSE NULL>>

parse_shopify_category(category_string) ==
  IF ~Truthy(category_string) \/ IsNull(category_string)
  THEN <<NULL, NULL, NULL>>
  ELSE LET split == Split(PyStr(category_string), <<" ", ">", " ">>)
           parts == [i \in 1..Len(split) |-> Strip(split[i])]
       IN <<IF Len(parts) > 0 THEN StrVal(parts[1]) ELSE NULL,
            IF Len(parts) > 1 THEN StrVal(parts[2]) ELSE NULL,
            IF Len(parts) > 2 THEN StrVal(parts[3]) ELSE NULL>>

-----------------------------------------------------------------------------
(* _find_best_match, find_category_ids *)

(* A reference table is NULL (its file was absent) or a Table of rows        *)
(* [id, name, parent], in file order: id is the 'id' cell, name the 'name'   *)
(* string and parent the 'category_id' / 'sub_category_id' cell (NULL in the *)
(* categories table).                                                        *)

keyword_mappings ==
  <<
    \* 'apparel': ['clothing', 'clothes']
    <<<<"a","p","p","a","r","e","l">>,
      <<<<"c","l","o","t","h","i","n","g">>, <<"c","l","o","t","h","e","s">>>>>>,
    \* 'clothing': ['apparel', 'clothes', 'fashion']
    <<<<"c","l","o","t","h","i","n","g">>,
      <<<<"a","p","p","a","r","e","l">>, <<"c","l","o","t","h","e","s">>, <<"f","a","s","h","i","o","n">>>>>>,
    \* 'accessories': ['jewelry', 'jewellery', 'watches']
    <<<<"a","c","c","e","s","s","o","r","i","e","s">>,
      <<<<"j","e","w","e","l","r","y">>, <<"j","e","w","e","l","l","e","r","y">>, <<"w","a","t","c","h","e","s">>>>>>,
    \* 'traditional': ['ceremonial', 'cultural']
    <<<<"t","r","a","d","i","t","i","o","n","a","l">>,
      <<<<"c","e","r","e","m","o","n","i","a","l">>, <<"c","u","l","t","u","r","a","l">>>>>>,
    \* 'health': ['beauty', 'wellness']
    <<<<"h","e","a","l","t","h">>,
      <<<<"b","e","a","u","t","y">>, <<"w","e","l","l","n","e","s","s">>>>>>,
    \* 'home': ['house', 'living', 'decor']
    <<<<"h","o","m","e">>,
      <<<<"h","o","u","s","e">>, <<"l","i","v","i","n","g">>, <<"d","e","c","o","r">>>>>>,
    \* 'electronics': ['tech', 'digital']
    <<<<"e","l","e","c","t","r","o","n","i","c","s">>,
      <<<<"t","e","c","h">>, <<"d","i","g","i","t","a","l">>>>>>,
    \* 'books': ['literature', 'reading']
    <<<<"b","o","o","k","s">>,
      <<<<"l","i","t","e","r","a","t","u","r","e">>, <<"r","e","a","d","i","n","g">>>>>>
  >>

\* "Direct keyword matching": some keyword of keyword_mappings links the
\* search term and the row's name, in either direction.
KeywordHit(search_term_lower, category_name) ==
  \E k \in 1..Len(keyword_mappings) :
    LET keyword == keyword_mappings[k][1]
        synonyms == Append(keyword_mappings[k][2], keyword)
    IN \/ /\ Contains(search_term_lower, keyword)
          /\ \E j \in 1..Len(synonyms) : Contains(category_name, synonyms[j])
       \/ /\ Contains(category_name, keyword)
          /\ \E j \in 1..Len(synonyms) : Contains(search_term_lower, synonyms[j])

\* df[df[search_column].str.lower() == search_term_lower]
ExactMatches(rows, search_term_lower) ==
  SelectSeq(rows, LAMBDA row : Lower(row.name) = search_term_lower)

\* for _, row in df.iterrows(): ... return: the first row the test accepts
PartialHit(row, search_term_lower) ==
  LET category_name == Strip(Lower(row.name))
  IN Contains(search_term_lower, category_name) \/ Contains(category_name, search_term_lower)

_find_best_match(search_term, table) ==
  IF table.rows = <<>> \/ search_term = <<>> THEN NULL
  ELSE LET rows == table.rows
           search_term_lower == Strip(Lower(search_term))
           exact_matches == ExactMatches(rows, search_term_lower)
           partial == SelectSeq(rows, LAMBDA row : PartialHit(row, search_term_lower))
           keyword == SelectSeq(rows, LAMBDA row :
                                  KeywordHit(search_term_lower, Strip(Lower(row.name))))
       IN IF exact_matches # <<>> THEN PyInt(exact_matches[1].id)
          ELSE IF partial # <<>> THEN PyInt(partial[1].id)
          ELSE IF keyword # <<>> THEN PyInt(keyword[1].id)
          ELSE NULL

\* df[df[parent_column] == parent_id]
FilterByParent(table, parent_id) ==
  Table(SelectSeq(table.rows, LAMBDA row : row.parent = parent_id))

\* The tuple find_category_ids returns.
Ids(category_id, sub_category_id, sub_sub_category_id) ==
  [t |-> "ids", category_id |-> category_id, sub_category_id |-> sub_category_id,
   sub_sub_category_id |-> sub_sub_category_id]

\* The tuple, unless its last lookup raised.
Checked(ids) == IF ids.sub_sub_category_id = RAISED THEN RAISED ELSE ids

\* A lookup of one level in all the rows of the table.
LookupUnfiltered(name, table, parent_id) ==
  IF Truthy(name) /\ table # NULL THEN _find_best_match(name.s, table) ELSE NULL

\* "if <name> and self.<table> is not None": the lookup of one level, in the
\* rows of the table under the parent found (all its rows without a parent).
Lookup(name, table, parent_id) ==
  IF Truthy(name) /\ table # NULL
  THEN _find_best_match(name.s, IF Truthy(parent_id) THEN FilterByParent(table, parent_id)
                                ELSE table)
  ELSE NULL

\* find_category_ids from the sub-sub-category lookup on.
FindSubSubCategory(category_id, sub_category_id, sub_sub_category_name, sub_sub_categories) ==
  IF sub_category_id = RAISED THEN RAISED
  ELSE Checked(Ids(category_id, sub_category_id,
                   Lookup(sub_sub_category_name, sub_sub_categories, sub_category_id)))

\* find_category_ids from the sub-category lookup on.
FindSubCategory(category_id, sub_category_name, sub_sub_category_name, sub_categories, sub_sub_categories) ==
  IF category_id = RAISED THEN RAISED
  ELSE FindSubSubCategory(category_id, Lookup(sub_category_name, sub_categories, category_id),
                          sub_sub_category_name, sub_sub_categories)

\* The three ids, or RAISED when a lookup raised.
find_category_ids(category_name, sub_category_name, sub_sub_category_name, categories, sub_categories, sub_sub_categories) ==
  FindSubCategory(Lookup(category_name, categories, NULL), sub_category_name,
                  sub_sub_category_name, sub_categories, sub_sub_categories)

-----------------------------------------------------------------------------
(* _clean_price *)

\* re.sub(r'[^\d.,]', '', price_str)
KeepPriceChars(s) == SelectSeq(s, LAMBDA c : IsDigit(c) \/ c \in {".", ","})

\* Whether float() accepts a string of digits and dots: at most one dot and
\* at least one digit.
FloatParses(s) ==
  /\ Cardinality({i \in 1..Len(s) : s[i] = "."}) <= 1
  /\ \E i \in 1..Len(s) : IsDigit(s[i])

RECURSIVE StripLeadingZeros(_)
StripLeadingZeros(s) ==
  IF s # <<>> /\ Head(s) = "0" THEN StripLeadingZeros(Tail(s)) ELSE s

RECURSIVE StripTrailingZeros(_)
StripTrailingZeros(s) ==
  IF s # <<>> /\ s[Len(s)] = "0" THEN StripTrailingZeros(SubSeq(s, 1, Len(s) - 1)) ELSE s

(* str(float(s)) for a string of digits with at most one dot, as repr prints *)
(* a float: the shortest decimal, with ".0" for a whole number, and in       *)
(* scientific notation below 0.0001.  Values of 10^16 and more, or of more   *)
(* than 15 significant digits, are beyond the inputs of the model.           *)
FloatStr(s) ==
  LET dot == IF InList(".", s) THEN IndexOf(".", s) ELSE Len(s) + 1
      int_part == StripLeadingZeros(SubSeq(s, 1, dot - 1))
      frac_part == StripTrailingZeros(SubSeq(s, dot + 1, Len(s)))
      zeros == Len(frac_part) - Len(StripLeadingZeros(frac_part))
      digits == StripLeadingZeros(frac_part)
      exponent == zeros + 1
  IN IF int_part = <<>> /\ frac_part # <<>> /\ zeros >= 4
     THEN <<Head(digits)>> \o (IF Len(digits) > 1 THEN <<".">> \o Tail(digits) ELSE <<>>)
          \o <<"e", "-">> \o (IF exponent < 10 THEN <<"0">> ELSE <<>>) \o NatStr(exponent)
     ELSE (IF int_part = <<>> THEN <<"0">> ELSE int_part) \o <<".">>
          \o (IF frac_part = <<>> THEN <<"0">> ELSE frac_part)

\* A cleaner that takes every comma for a decimal separator.
clean_price_comma_decimal(price_value) ==
  IF IsNull(price_value) THEN NULL
  ELSE LET kept == KeepPriceChars(Strip(PyStr(price_value)))
           price_str == ReplaceChar(kept, ",", <<".">>)
       IN IF FloatParses(price_str) THEN StrVal(FloatStr(price_str)) ELSE NULL

\* A cleaner that returns the cleaned string without trying float() on it.
clean_price_unchecked(price_value) ==
  IF IsNull(price_value) THEN NULL
  ELSE LET kept == KeepPriceChars(Strip(PyStr(price_value)))
       IN StrVal(IF InList(",", kept) /\ InList(".", kept) THEN ReplaceChar(kept, ",", <<>>)
                 ELSE IF InList(",", kept) THEN ReplaceChar(kept, ",", <<".">>)
                 ELSE kept)

_clean_price(price_value) ==
  IF IsNull(price_value) THEN NULL
  ELSE LET stripped == Strip(PyStr(price_value))
           kept == KeepPriceChars(stripped)
           price_str ==
             IF InList(",", kept) /\ InList(".", kept) THEN ReplaceChar(kept, ",", <<>>)
             ELSE IF InList(",", kept) THEN ReplaceChar(kept, ",", <<".">>)
             ELSE kept
       IN IF FloatParses(price_str) THEN StrVal(FloatStr(price_str)) ELSE NULL

-----------------------------------------------------------------------------
(* _clean_image_urls *)

\* A cleaner that splits on ';' and ',' only.
clean_image_urls_two_separators(image_value) ==
  IF IsNull(image_value) THEN NULL
  ELSE LET image_str == Strip(PyStr(image_value))
           urls == SplitClass(image_str, {";", ","})
           stripped == [i \in 1..Len(urls) |-> Strip(urls[i])]
           clean_urls ==
             SelectSeq(stripped, LAMBDA url : StartsWith(url, <<"h","t","t","p">>))
       IN IF image_str = <<>> THEN NULL
          ELSE IF clean_urls # <<>> THEN StrVal(Join(clean_urls, <<",">>)) ELSE NULL

_clean_image_urls(image_value) ==
  IF IsNull(image_value) THEN NULL
  ELSE LET image_str == Strip(PyStr(image_value))
           urls == SplitClass(image_str, {";", ",", "|", "\n"})
           stripped == [i \in 1..Len(urls) |-> Strip(urls[i])]
           clean_urls ==
             SelectSeq(stripped, LAMBDA url :
               url # <<>> /\ (StartsWith(url, <<"h","t","t","p">>)
                              \/ StartsWith(url, <<"h","t","t","p","s">>)))
       IN IF image_str = <<>> THEN NULL
          ELSE IF clean_urls # <<>> THEN StrVal(Join(clean_urls, <<",">>)) ELSE NULL

-----------------------------------------------------------------------------
(* _fuzzy_match_column, suggest_mapping *)

keywords ==
  <<
    \* 'name': ['title', 'name', 'product']
    <<<<"n","a","m","e">>,
      <<<<"t","i","t","l","e">>, <<"n","a","m","e">>, <<"p","r","o","d","u","c","t">>>>>>,
    \* 'description': ['description', 'body', 'content', 'details']
    <<<<"d","e","s","c","r","i","p","t","i","o","n">>,
      <<<<"d","e","s","c","r","i","p","t","i","o","n">>, <<"b","o","d","y">>, <<"c","o","n","t","e","n","t">>, <<"d","e","t","a","i","l","s">>>>>>,
    \* 'price': ['price', 'cost', 'amount']
    <<<<"p","r","i","c","e">>,
      <<<<"p","r","i","c","e">>, <<"c","o","s","t">>, <<"a","m","o","u","n","t">>>>>>,
    \* 'brand': ['brand', 'vendor', 'manufacturer']
    <<<<"b","r","a","n","d">>,
      <<<<"b","r","a","n","d">>, <<"v","e","n","d","o","r">>, <<"m","a","n","u","f","a","c","t","u","r","e","r">>>>>>,
    \* 'category_id': ['category', 'type', 'classification']
    <<<<"c","a","t","e","g","o","r","y","_","i","d">>,
      <<<<"c","a","t","e","g","o","r","y">>, <<"t","y","p","e">>, <<"c","l","a","s","s","i","f","i","c","a","t","i","o","n">>>>>>,
    \* 'variant_quantity': ['quantity', 'stock', 'inventory', 'qty']
    <<<<"v","a","r","i","a","n","t","_","q","u","a","n","t","i","t","y">>,
      <<<<"q","u","a","n","t","i","t","y">>, <<"s","t","o","c","k">>, <<"i","n","v","e","n","t","o","r","y">>, <<"q","t","y">>>>>>,
    \* 'image_urls': ['image', 'photo', 'picture', 'url']
    <<<<"i","m","a","g","e","_","u","r","l","s">>,
      <<<<"i","m","a","g","e">>, <<"p","h","o","t","o">>, <<"p","i","c","t","u","r","e">>, <<"u","r","l">>>>>>,
    \* 'category_source': ['category', 'type', 'tags', 'classification', 'department']
    <<<<"c","a","t","e","g","o","r","y","_","s","o","u","r","c","e">>,
      <<<<"c","a","t","e","g","o","r","y">>, <<"t","y","p","e">>, <<"t","a","g","s">>, <<"c","l","a","s","s","i","f","i","c","a","t","i","o","n">>, <<"d","e","p","a","r","t","m","e","n","t">>>>>>
  >>

\* for col in source_columns: if test: return col, given the columns that
\* pass the test
FirstColumn(hits) == IF hits = <<>> THEN NULL ELSE StrVal(hits[1])

\* A keyword loop that walks the columns first: the first column containing
\* any of the keywords.
KeywordMatchByColumn(keyword_list, source_columns) ==
  FirstColumn(SelectSeq(source_columns, LAMBDA col :
    \E k \in 1..Len(keyword_list) : Contains(Lower(col), keyword_list[k])))

\* The keyword loop: the first keyword, in listed order, that some column
\* contains decides, and the first such column is returned.
RECURSIVE KeywordMatch(_, _)
KeywordMatch(keyword_list, source_columns) ==
  IF keyword_list = <<>> THEN NULL
  ELSE LET hit == FirstColumn(SelectSeq(source_columns,
                      LAMBDA col : Contains(Lower(col), Head(keyword_list))))
       IN IF hit # NULL THEN hit ELSE KeywordMatch(Tail(keyword_list), source_columns)

_fuzzy_match_column(target, source_columns) ==
  LET target_lower == Lower(target)
      exact == FirstColumn(SelectSeq(source_columns, LAMBDA col : Lower(col) = target_lower))
      partial == FirstColumn(SelectSeq(source_columns, LAMBDA col :
                   Contains(Lower(col), target_lower) \/ Contains(target_lower, Lower(col))))
  IN IF exact # NULL THEN exact
     ELSE IF partial # NULL THEN partial
     ELSE IF DictHas(keywords, target)
          THEN KeywordMatch(DictGet(keywords, target), source_columns)
          ELSE NULL

\* The platform loop of suggest_mapping: every entry of the profile, in its
\* order, is mapped to the source column matching its first matching synonym.
RECURSIVE PlatformSuggestions(_, _, _)
PlatformSuggestions(platform_mappings, source_columns, map) ==
  IF platform_mappings = <<>> THEN map
  ELSE LET salaaz_field == Head(platform_mappings)[1]
           possible_columns == Head(platform_mappings)[2]
           source_lower == [i \in 1..Len(source_columns) |-> Lower(source_columns[i])]
           found == SelectSeq(possible_columns, LAMBDA c : InList(Lower(c), source_lower))
           original_col == source_columns[IndexOf(Lower(found[1]), source_lower)]
       IN PlatformSuggestions(Tail(platform_mappings), source_columns,
            IF found = <<>> THEN map ELSE DictSet(map, salaaz_field, original_col))

\* The fallback loop of suggest_mapping over ALL_SALAAZ_COLUMNS.
RECURSIVE FuzzySuggestions(_, _, _)
FuzzySuggestions(fields, source_columns, map) ==
  IF fields = <<>> THEN map
  ELSE LET best_match ==
             IF DictHas(map, Head(fields)) THEN NULL
             ELSE _fuzzy_match_column(Head(fields), source_columns)
       IN FuzzySuggestions(Tail(fields), source_columns,
            IF Truthy(best_match) THEN DictSet(map, Head(fields), best_match.s) ELSE map)

\* A suggestion by the fallback alone, whatever the platform.
suggest_mapping_generic(source_columns, platform_name) ==
  FuzzySuggestions(ALL_SALAAZ_COLUMNS, source_columns, <<>>)

suggest_mapping(source_columns, platform_name) ==
  LET from_platform ==
        IF Truthy(platform_name) /\ DictHas(PLATFORM_MAPPINGS, platform_name.s)
        THEN PlatformSuggestions(DictGet(PLATFORM_MAPPINGS, platform_name.s), source_columns, <<>>)
        ELSE <<>>
  IN FuzzySuggestions(ALL_SALAAZ_COLUMNS, source_columns, from_platform)

-----------------------------------------------------------------------------
(* pandas DataFrames *)

(* A DataFrame is its column names in order, its index labels in row order  *)
(* and, for each column, the cells of the column in row order.              *)
DataFrame(columns, index, data) == [columns |-> columns, index |-> index, data |-> data]

EmptyDataFrame == DataFrame(<<>>, <<>>, <<>>)

\* len(df)
Rows(d) == Len(d.index)

\* df[col] = values: an existing column is replaced, a new one goes last
SetColumn(d, col, values) ==
  IF InList(col, d.columns)
  THEN [d EXCEPT !.data = [c \in DOMAIN d.data |-> IF c = col THEN values ELSE d.data[c]]]
  ELSE [d EXCEPT !.columns = Append(d.columns, col),
                 !.data = [c \in DOMAIN d.data \cup {col} |->
                             IF c = col THEN values ELSE d.data[c]]]

\* df[col] = value, for a scalar
SetColumnAll(d, col, value) == SetColumn(d, col, [i \in 1..Rows(d) |-> value])

\* df[mask]: the rows at the positions kept, with their index labels
SelectRows(d, kept) ==
  LET positions == SelectSeq([i \in 1..Rows(d) |-> i], LAMBDA i : i \in kept)
  IN [d EXCEPT !.index = [k \in 1..Len(positions) |-> d.index[positions[k]]],
               !.data = [c \in DOMAIN d.data |->
                           [k \in 1..Len(positions) |-> d.data[c][positions[k]]]]]

-----------------------------------------------------------------------------
(* map_shopify_categories *)

\* The tables of a converter, as its methods read them.
Tables(categories, sub_categories, sub_sub_categories) ==
  [categories |-> categories, sub_categories |-> sub_categories,
   sub_sub_categories |-> sub_sub_categories]

\* An id passed on as it was found.
OrNothing(id) == id

\* category_id if category_id else 1: None and 0 give the default
OrDefault(id) == IF Truthy(id) THEN id ELSE IntVal(1)

\* "Set the IDs": the three cells of the row, or RAISED.
SetIds(ids) ==
  IF ids = RAISED THEN RAISED
  ELSE Ids(OrDefault(ids.category_id), OrDefault(ids.sub_category_id),
           OrDefault(ids.sub_sub_category_id))

\* "Find matching IDs" for the parsed levels of a row.
FindIds(levels, tables) ==
  find_category_ids(levels[1], levels[2], levels[3], tables.categories,
                    tables.sub_categories, tables.sub_sub_categories)

\* The body of the row loop for one row: the three cells set, or RAISED.
MapRow(category_string, tables) ==
  SetIds(FindIds(parse_shopify_category(category_string), tables))

\* "Initialize category ID columns" on the copy
InitializedCopy(d) ==
  SetColumnAll(SetColumnAll(SetColumnAll(d, <<"c","a","t","e","g","o","r","y","_","i","d">>, NULL), <<"s","u","b","_","c","a","t","e","g","o","r","y","_","i","d">>, NULL), <<"s","u","b","_","s","u","b","_","c","a","t","e","g","o","r","y","_","i","d">>, NULL)

\* The copy after the row loop, mapped being what the loop body gave for each
\* row; RAISED when it raised for some row.
AfterRowLoop(result_df, mapped) ==
  IF \E i \in 1..Len(mapped) : mapped[i] = RAISED THEN RAISED
  ELSE SetColumn(SetColumn(SetColumn(result_df,
         <<"c","a","t","e","g","o","r","y","_","i","d">>, [i \in 1..Len(mapped) |-> mapped[i].category_id]),
         <<"s","u","b","_","c","a","t","e","g","o","r","y","_","i","d">>, [i \in 1..Len(mapped) |-> mapped[i].sub_category_id]),
         <<"s","u","b","_","s","u","b","_","c","a","t","e","g","o","r","y","_","i","d">>, [i \in 1..Len(mapped) |-> mapped[i].sub_sub_category_id])

\* The frame map_shopify_categories returns, or RAISED when a lookup raised.
map_shopify_categories(d, category_column, tables) ==
  IF ~InList(category_column, d.columns)
  THEN SetColumnAll(InitializedCopy(d), <<"c","a","t","e","g","o","r","y","_","i","d">>, IntVal(1))
  ELSE AfterRowLoop(InitializedCopy(d),
         [i \in 1..Rows(d) |-> MapRow(d.data[category_column][i], tables)])

\* A map_shopify_categories that works on the caller's frame itself.
FrameAliased(d, result_df) == result_df

\* The caller's frame once map_shopify_categories has run on it: the method
\* works on df.copy(), so the frame it was given is as it was.
FrameAfterMapping(d, result_df) == d

-----------------------------------------------------------------------------
(* _post_process_data *)

\* result_df[col] = result_df[col].apply(self._clean_price)
CleanPriceColumn(d) ==
  IF InList(<<"p","r","i","c","e">>, d.columns)
  THEN SetColumn(d, <<"p","r","i","c","e">>, [i \in 1..Rows(d) |-> _clean_price(d.data[<<"p","r","i","c","e">>][i])])
  ELSE d

VariantKeywords ==
  <<<<"c","o","l","o","r">>,
    <<"s","i","z","e">>,
    <<"s","t","y","l","e">>,
    <<"o","p","t","i","o","n">>,
    <<"v","a","r","i","a","n","t">>,
    <<"a","t","t","r","i","b","u","t","e">>>>

\* The source columns whose lowered name contains a variant keyword.
VariantColumns(source_df) ==
  SelectSeq(source_df.columns, LAMBDA col :
    \E k \in 1..Len(VariantKeywords) : Contains(Lower(col), VariantKeywords[k]))

\* col.lower().replace(' ', '_') with every non-word character removed
AttrName(col) == SelectSeq(ReplaceChar(Lower(col), " ", <<"_">>), IsWord)

\* What json.dumps writes for a character of a string.
JsonChar(c) ==
  CASE c = "\"" -> <<"\\", "\"">>
    [] c = "\\" -> <<"\\", "\\">>
    [] c = "\n" -> <<"\\", "n">>
    [] c = "\t" -> <<"\\", "t">>
    [] c = "\r" -> <<"\\", "r">>
    [] OTHER -> <<c>>

\* json.dumps of a str, for the characters of the model
JsonString(str) ==
  LET E[i \in 0..Len(str)] == IF i = 0 THEN <<>> ELSE E[i - 1] \o JsonChar(str[i])
  IN <<"\"">> \o E[Len(str)] \o <<"\"">>

\* json.dumps of a dict of strings
RECURSIVE JsonItems(_)
JsonItems(attrs) ==
  IF attrs = <<>> THEN <<>>
  ELSE JsonString(Head(attrs)[1]) \o <<":", " ">> \o JsonString(Head(attrs)[2])
       \o (IF Len(attrs) > 1 THEN <<",", " ">> ELSE <<>>) \o JsonItems(Tail(attrs))

json_dumps(attrs) == <<"{">> \o JsonItems(attrs) \o <<"}">>

\* attrs after the loop over the variant columns, for the row at position i
RECURSIVE RowAttrs(_, _, _, _)
RowAttrs(source_df, variant_columns, i, attrs) ==
  IF variant_columns = <<>> THEN attrs
  ELSE LET value == source_df.data[Head(variant_columns)][i]
       IN RowAttrs(source_df, Tail(variant_columns), i,
            IF ~IsNull(value) /\ Strip(PyStr(value)) # <<>>
            THEN DictSet(attrs, AttrName(Head(variant_columns)), Strip(PyStr(value)))
            ELSE attrs)

_process_variant_attributes(result_df, source_df) ==
  LET variant_columns == VariantColumns(source_df)
      variant_attrs ==
        [i \in 1..Rows(source_df) |->
           LET attrs == RowAttrs(source_df, variant_columns, i, <<>>)
           IN IF attrs # <<>> THEN StrVal(json_dumps(attrs)) ELSE NULL]
  IN IF variant_columns # <<>> THEN SetColumn(result_df, <<"v","a","r","i","a","n","t","_","a","t","t","r","i","b","u","t","e","s">>, variant_attrs)
     ELSE result_df

\* result_df[col] = result_df[col].apply(self._clean_image_urls)
CleanImageColumn(d) ==
  IF InList(<<"i","m","a","g","e","_","u","r","l","s">>, d.columns)
  THEN SetColumn(d, <<"i","m","a","g","e","_","u","r","l","s">>, [i \in 1..Rows(d) |-> _clean_image_urls(d.data[<<"i","m","a","g","e","_","u","r","l","s">>][i])])
  ELSE d

\* df[col] = df[col].fillna(value)
FillNa(d, col, value) ==
  IF InList(col, d.columns)
  THEN SetColumn(d, col, [i \in 1..Rows(d) |-> IF IsNull(d.data[col][i]) THEN value
                                                 ELSE d.data[col][i]])
  ELSE d

\* Defaults for variant_quantity only.
set_default_quantity_only(result_df) == FillNa(result_df, <<"v","a","r","i","a","n","t","_","q","u","a","n","t","i","t","y">>, StrVal(<<"0">>))

_set_default_values(result_df) ==
  FillNa(FillNa(result_df, <<"c","a","t","e","g","o","r","y","_","i","d">>, StrVal(<<"1">>)), <<"v","a","r","i","a","n","t","_","q","u","a","n","t","i","t","y">>, StrVal(<<"0">>))

\* notna() & (astype(str).str.strip() != '')
Present(cell) == ~IsNull(cell) /\ Strip(PyStr(cell)) # <<>>

\* A filter on name alone.
NameFilter(d) == SelectRows(d, {i \in 1..Rows(d) : Present(d.data[<<"n","a","m","e">>][i])})

\* The filter on name and description of _post_process_data.
RequiredFilter(d) ==
  IF InList(<<"n","a","m","e">>, d.columns) /\ InList(<<"d","e","s","c","r","i","p","t","i","o","n">>, d.columns)
  THEN SelectRows(d, {i \in 1..Rows(d) : Present(d.data[<<"n","a","m","e">>][i])
                                          /\ Present(d.data[<<"d","e","s","c","r","i","p","t","i","o","n">>][i])})
  ELSE d

\* dropna(how='all')
DropEmptyRows(d) ==
  SelectRows(d, {i \in 1..Rows(d) :
                   d.columns = <<>> \/ \E c \in DOMAIN d.data : ~IsNull(d.data[c][i])})

_post_process_data(result_df, source_df, map) ==
  DropEmptyRows(RequiredFilter(_set_default_values(CleanImageColumn(
    _process_variant_attributes(CleanPriceColumn(result_df), source_df)))))

-----------------------------------------------------------------------------
(* transform_data *)

\* The loop "Map the data": every item of the mapping, in its order, whose
\* source column is a column of df sets result_data[salaaz_col].
RECURSIVE MapData(_, _, _)
MapData(items, d, result_data) ==
  IF items = <<>> THEN result_data
  ELSE LET salaaz_col == Head(items)[1]
           source_col == Head(items)[2]
       IN MapData(Tail(items), d,
            IF source_col # <<>> /\ InList(source_col, d.columns)
            THEN SetColumn(result_data, salaaz_col, d.data[source_col])
            ELSE result_data)

\* The first candidate that is a column of df, or NULL.
CategorySourceColumn(d, platform_name) ==
  IF Truthy(platform_name) /\ DictHas(PLATFORM_MAPPINGS, platform_name.s)
  THEN LET profile == DictGet(PLATFORM_MAPPINGS, platform_name.s)
           candidates == IF DictHas(profile, <<"c","a","t","e","g","o","r","y","_","s","o","u","r","c","e">>) THEN DictGet(profile, <<"c","a","t","e","g","o","r","y","_","s","o","u","r","c","e">>) ELSE <<>>
       IN FirstColumn(SelectSeq(candidates, LAMBDA c : InList(c, d.columns)))
  ELSE NULL

\* result_df[col] = mapped_df[col]: the cells are matched by index label, and
\* a label mapped_df does not have gets NaN.
Aligned(d, col, index) ==
  [k \in 1..Len(index) |->
     IF \E i \in 1..Rows(d) : d.index[i] = index[k]
     THEN d.data[col][CHOOSE i \in 1..Rows(d) : d.index[i] = index[k]]
     ELSE NULL]

\* A category step that leaves result_df as the mapping built it.
WithoutCategories(result_df, mapped_df) == result_df

\* Whether the category step produced a frame.
IsFrame(mapped_df) == mapped_df # RAISED /\ mapped_df # NotCalled

\* result_df after "Handle category mapping": the three columns of mapped_df
\* replace those of result_df; when the step was skipped or raised, result_df
\* is as it was.
WithCategories(result_df, mapped_df) ==
  IF ~IsFrame(mapped_df) THEN result_df
  ELSE SetColumn(SetColumn(SetColumn(result_df,
         <<"c","a","t","e","g","o","r","y","_","i","d">>, Aligned(mapped_df, <<"c","a","t","e","g","o","r","y","_","i","d">>, result_df.index)),
         <<"s","u","b","_","c","a","t","e","g","o","r","y","_","i","d">>, Aligned(mapped_df, <<"s","u","b","_","c","a","t","e","g","o","r","y","_","i","d">>, result_df.index)),
         <<"s","u","b","_","s","u","b","_","c","a","t","e","g","o","r","y","_","i","d">>, Aligned(mapped_df, <<"s","u","b","_","s","u","b","_","c","a","t","e","g","o","r","y","_","i","d">>, result_df.index))

\* result_data before "Map the data": every Salaaz column, [None] * len(df)
BlankData(d) ==
  DataFrame(ALL_SALAAZ_COLUMNS, [i \in 1..Rows(d) |-> i - 1],
            [c \in Range(ALL_SALAAZ_COLUMNS) |-> [i \in 1..Rows(d) |-> NULL]])

\* A category step that runs without a category source column too.
MappedFrameAlways(d, category_source_col, tables) ==
  map_shopify_categories(d, IF Truthy(category_source_col) THEN category_source_col.s ELSE <<>>, tables)

\* What map_shopify_categories gave: NotCalled without a category source
\* column, RAISED when it raised.
MappedFrame(d, category_source_col, tables) ==
  IF Truthy(category_source_col)
  THEN map_shopify_categories(d, category_source_col.s, tables)
  ELSE NotCalled

\* transform_data from "Update result_df with category IDs" on.
AfterCategoryStep(d, map, mapped_df) ==
  [result |-> _post_process_data(WithCategories(MapData(map, d, BlankData(d)), mapped_df), d, map),
   df |-> IF IsFrame(mapped_df) THEN FrameAfterMapping(d, mapped_df) ELSE d]

(* transform_data(df, mapping, platform): the frame returned, and the      *)
(* caller's df as the call leaves it.                                      *)
transform_data(d, map, platform_name, tables) ==
  AfterCategoryStep(d, map, MappedFrame(d, CategorySourceColumn(d, platform_name), tables))

-----------------------------------------------------------------------------
(* Callers.  Each specification drives one operation of the converter: the  *)
(* caller prepares an argument piece by piece and calls the operation on    *)
(* it; ret keeps the argument passed and the value returned.                *)

Returned(operation, in, out) == [t |-> operation, in |-> in, out |-> out]

\* The variables a caller of a pure operation does not touch.
NoTables ==
  /\ categories_df = NULL
  /\ sub_categories_df = NULL
  /\ sub_sub_categories_df = NULL

NoSession ==
  /\ df = EmptyDataFrame
  /\ mapping = <<>>
  /\ platform = NULL
  /\ calls = 0
  /\ first = NotCalled

TablesUnchanged == UNCHANGED <<categories_df, sub_categories_df, sub_sub_categories_df>>

SessionUnchanged == UNCHANGED <<df, mapping, platform, calls, first>>

\* The caller appends one piece to the argument.
Type(piece) ==
  /\ arg' = arg \o piece
  /\ typed' = typed + 1
  /\ ret' = NotCalled
  /\ UNCHANGED op
  /\ TablesUnchanged
  /\ SessionUnchanged

-----------------------------------------------------------------------------
(* Caller of detect_platform *)

\* The source columns a caller may have, in the order it lists them.
DetectColumns ==
  <<<<"T","I","T","L","E">>,
    <<"D","e","s","c","r","i","p","t","i","o","n">>,
    <<"P","r","i","c","e">>,
    <<"B","r","a","n","d">>,
    <<"C","a","t","e","g","o","r","y">>,
    <<"N","a","m","e">>,
    <<"P","r","o","d","u","c","t"," ","N","a","m","e">>,
    <<"V","e","n","d","o","r">>,
    <<"S","t","o","c","k">>,
    <<"q","u","a","n","t","i","t","y">>>>

InitDetect ==
  /\ NoTables
  /\ NoSession
  /\ op = "detect_platform"
  /\ arg = <<>>
  /\ typed = 0
  /\ ret = NotCalled

\* One more source column; column_set is a set, so the columns are listed in
\* one order only.
AddDetectColumn ==
  /\ op = "detect_platform"
  /\ \E i \in (typed + 1)..Len(DetectColumns) :
       /\ arg' = Append(arg, DetectColumns[i])
       /\ typed' = i
  /\ ret' = NotCalled
  /\ UNCHANGED op
  /\ TablesUnchanged
  /\ SessionUnchanged

CallDetectPlatform ==
  /\ op = "detect_platform"
  /\ ret' = Returned("detect_platform", arg, detect_platform(arg))
  /\ UNCHANGED <<op, arg, typed>>
  /\ TablesUnchanged
  /\ SessionUnchanged

NextDetect == AddDetectColumn \/ CallDetectPlatform

SpecDetect == InitDetect /\ [][NextDetect]_vars

\* C1: detect_platform scores every profile, in the order shopify, amazon,
\* woocommerce, by the number of its entries (category_source included) that
\* have a synonym equal to a source column when both are lowered, over the
\* number of its entries; it returns the profile of maximal score when that
\* score exceeds 0.3, the first of them in that order on a tie, and None when
\* no score exceeds 0.3.
C1_Order == <<<<"s","h","o","p","i","f","y">>, <<"a","m","a","z","o","n">>, <<"w","o","o","c","o","m","m","e","r","c","e">>>>

C1_Entries(name) ==
  PLATFORM_MAPPINGS[CHOOSE i \in 1..Len(PLATFORM_MAPPINGS) : PLATFORM_MAPPINGS[i][1] = name][2]

\* The entries of a profile with a synonym equal to a source column, both lowered.
C1_Hits(name, columns) ==
  LET lowered == {Lower(columns[c]) : c \in 1..Len(columns)}
      entries == C1_Entries(name)
  IN Cardinality({e \in 1..Len(entries) :
                    \E j \in 1..Len(entries[e][2]) : Lower(entries[e][2][j]) \in lowered})

C1_DetectPlatformReturnsFirstBestProfile ==
  ret.t = "detect_platform" =>
    LET profiles == 1..Len(C1_Order)
        hits == [i \in profiles |-> C1_Hits(C1_Order[i], ret.in)]
        size == [i \in profiles |-> Len(C1_Entries(C1_Order[i]))]
        above == [i \in profiles |-> 10 * hits[i] > 3 * size[i]]
    IN /\ Len(PLATFORM_MAPPINGS) = Len(C1_Order)
       /\ \A i \in profiles : PLATFORM_MAPPINGS[i][1] = C1_Order[i]
       /\ (ret.out = NULL) <=> (\A i \in profiles : ~above[i])
       /\ ret.out # NULL => \E i \in profiles : ret.out = StrVal(C1_Order[i])
       /\ \A i \in profiles :
            ret.out = StrVal(C1_Order[i]) =>
              /\ above[i]
              /\ \A j \in profiles : hits[j] * size[i] <= hits[i] * size[j]
              /\ \A j \in 1..(i - 1) : hits[j] * size[i] < hits[i] * size[j]

\* C1 witness: amazon is returned on a tie with woocommerce above the threshold.
C1_Witness ==
  /\ ret.t = "detect_platform"
  /\ ret.out = StrVal(<<"a","m","a","z","o","n">>)
  /\ C1_Hits(<<"a","m","a","z","o","n">>, ret.in) = C1_Hits(<<"w","o","o","c","o","m","m","e","r","c","e">>, ret.in)
  /\ C1_Hits(<<"s","h","o","p","i","f","y">>, ret.in) < C1_Hits(<<"a","m","a","z","o","n">>, ret.in)

-----------------------------------------------------------------------------
(* Caller of parse_shopify_category *)

MaxCategoryLen == 9

CategoryChars == {"A", " ", ">"}

CategorySeeds ==
  {<<>>, <<"A"," ",">"," ","B"," ",">"," ","C">>, <<"A">>}

InitParse ==
  /\ NoTables
  /\ NoSession
  /\ op = "parse_shopify_category"
  /\ arg \in CategorySeeds
  /\ typed = 0
  /\ ret = NotCalled

TypeCategoryChar ==
  /\ op = "parse_shopify_category"
  /\ Len(arg) < MaxCategoryLen
  /\ \E c \in CategoryChars : Type(<<c>>)

CallParseCategory ==
  /\ op = "parse_shopify_category"
  /\ \E in \in {StrVal(arg), NULL} :
       ret' = Returned("parse_shopify_category", in, parse_shopify_category(in))
  /\ UNCHANGED <<op, arg, typed>>
  /\ TablesUnchanged
  /\ SessionUnchanged

NextParse == TypeCategoryChar \/ CallParseCategory

SpecParse == InitParse /\ [][NextParse]_vars

\* C2: parse_shopify_category splits its input at each " > ", reading left
\* to right, trims every segment and returns the first three as the three
\* levels; a level with no segment is null, segments after the third are
\* dropped, and a null or empty input gives three nulls.
C2_Sep == <<" ", ">", " ">>

\* Where the leftmost separator of s starts, or 0.
C2_Find(s) ==
  IF \E i \in 1..(Len(s) - 2) : SubSeq(s, i, i + 2) = C2_Sep
  THEN CHOOSE i \in 1..(Len(s) - 2) :
         /\ SubSeq(s, i, i + 2) = C2_Sep
         /\ \A j \in 1..(i - 1) : SubSeq(s, j, j + 2) # C2_Sep
  ELSE 0

\* What follows the first k separators of s, or NULL when there are fewer.
RECURSIVE C2_After(_, _)
C2_After(s, k) ==
  IF k = 0 THEN StrVal(s)
  ELSE IF C2_Find(s) = 0 THEN NULL
  ELSE C2_After(SubSeq(s, C2_Find(s) + 3, Len(s)), k - 1)

\* Segment k + 1 of s, trimmed, or NULL when s has no such segment.
C2_Level(s, k) ==
  LET rest == C2_After(s, k)
  IN IF rest = NULL THEN NULL
     ELSE IF C2_Find(rest.s) = 0 THEN StrVal(Strip(rest.s))
     ELSE StrVal(Strip(SubSeq(rest.s, 1, C2_Find(rest.s) - 1)))

C2_ParseReturnsFirstThreeTrimmedSegments ==
  ret.t = "parse_shopify_category" =>
    /\ (ret.in = NULL \/ ret.in = StrVal(<<>>)) => ret.out = <<NULL, NULL, NULL>>
    /\ (ret.in # NULL /\ ret.in # StrVal(<<>>)) =>
         ret.out = <<C2_Level(ret.in.s, 0), C2_Level(ret.in.s, 1), C2_Level(ret.in.s, 2)>>
    /\ ret.in = StrVal(<<"A"," ",">"," ","B"," ",">"," ","C">>) => ret.out = <<StrVal(<<"A">>), StrVal(<<"B">>), StrVal(<<"C">>)>>
    /\ ret.in = StrVal(<<"A">>) => ret.out = <<StrVal(<<"A">>), NULL, NULL>>

\* C2 witness: an input of four segments, the first three of them returned
\* trimmed and the fourth dropped.
C2_Witness ==
  /\ ret.t = "parse_shopify_category"
  /\ ret.in # NULL
  /\ C2_After(ret.in.s, 3) # NULL
  /\ ret.out[3] # NULL

-----------------------------------------------------------------------------
(* Caller of _find_best_match *)

MaxTableRows == 3

\* Names a categories file may hold, one of them with blanks around it.
MatchNames ==
  {<<"T","-","S","h","i","r","t","s">>, <<" ","S","h","i","r","t","s">>, <<"S","h","i","r","t","s">>, <<"C","l","o","t","h","i","n","g">>, <<"A","p","p","a","r","e","l">>}

MatchTerms ==
  {<<"S","h","i","r","t","s">>, <<" ","s","h","i","r","t","s"," ">>, <<"a","p","p","a","r","e","l">>, <<"F","a","s","h","i","o","n">>, <<"H","a","t","s">>}

\* A table of the given names, in file order, with ids 1, 2, ...
TableOf(names) ==
  Table([i \in 1..Len(names) |-> [id |-> IntVal(i), name |-> names[i], parent |-> NULL]])

MatchTables ==
  {TableOf(names) : names \in UNION {[1..n -> MatchNames] : n \in 0..MaxTableRows}}

InitMatch ==
  /\ categories_df \in MatchTables
  /\ sub_categories_df = NULL
  /\ sub_sub_categories_df = NULL
  /\ NoSession
  /\ op = "_find_best_match"
  /\ arg = <<>>
  /\ typed = 0
  /\ ret = NotCalled

ChooseTerm ==
  /\ op = "_find_best_match"
  /\ typed = 0
  /\ \E term \in MatchTerms : Type(term)

CallFindBestMatch ==
  /\ op = "_find_best_match"
  /\ ret' = Returned("_find_best_match", arg, _find_best_match(arg, categories_df))
  /\ UNCHANGED <<op, arg, typed>>
  /\ TablesUnchanged
  /\ SessionUnchanged

NextMatch == ChooseTerm \/ CallFindBestMatch

SpecMatch == InitMatch /\ [][NextMatch]_vars

\* C3: whenever some row's name equals the search term, both trimmed and
\* lowered, _find_best_match returns the id of the first such row of the
\* table, whatever rows before it match by substring or by keyword.
C3_Equal(row, term) == Strip(Lower(row.name)) = Strip(Lower(term))

C3_ExactMatchWins ==
  (ret.t = "_find_best_match" /\ ret.in # <<>>) =>
    \A i \in 1..Len(categories_df.rows) :
      (/\ C3_Equal(categories_df.rows[i], ret.in)
       /\ \A j \in 1..(i - 1) : ~C3_Equal(categories_df.rows[j], ret.in))
      => ret.out = categories_df.rows[i].id

-----------------------------------------------------------------------------
(* Caller of _clean_price *)

MaxPriceLen == 6

PriceChars == {"1", "0", ",", ".", "$"}

PriceSeeds ==
  {<<>>, <<"$","1",",","2","3","4",".","5","6">>, <<"1","9",",","9","9">>, <<"a","b","c">>}

InitPrice ==
  /\ NoTables
  /\ NoSession
  /\ op = "_clean_price"
  /\ arg \in PriceSeeds
  /\ typed = 0
  /\ ret = NotCalled

TypePriceChar ==
  /\ op = "_clean_price"
  /\ Len(arg) < MaxPriceLen
  /\ \E c \in PriceChars : Type(<<c>>)

CallCleanPrice ==
  /\ op = "_clean_price"
  /\ ret' = Returned("_clean_price", StrVal(arg), _clean_price(StrVal(arg)))
  /\ UNCHANGED <<op, arg, typed>>
  /\ TablesUnchanged
  /\ SessionUnchanged

NextPrice == TypePriceChar \/ CallCleanPrice

SpecPrice == InitPrice /\ [][NextPrice]_vars

\* C4: _clean_price removes every character of a non-null value but digits,
\* commas and dots; deletes the commas when a comma and a dot remain, else
\* turns every comma into a dot; and returns the parsed number as a string,
\* or null when what remains is no number.  "$1,234.56" gives "1234.56",
\* "19,99" gives "19.99" and "abc" gives null.

\* The remainder the claim describes, character by character.
C4_Remainder(s) ==
  LET keep == {i \in 1..Len(s) : s[i] \in {"0","1","2","3","4","5","6","7","8","9",",","."}}
      both == (\E i \in keep : s[i] = ",") /\ (\E i \in keep : s[i] = ".")
      R[i \in 0..Len(s)] ==
        IF i = 0 THEN <<>>
        ELSE IF i \notin keep THEN R[i - 1]
        ELSE IF s[i] = "," THEN (IF both THEN R[i - 1] ELSE Append(R[i - 1], "."))
        ELSE Append(R[i - 1], s[i])
  IN R[Len(s)]

\* A string of digits with at most one dot and at least one digit.
C4_IsNumber(s) ==
  /\ \A i, j \in 1..Len(s) : (s[i] = "." /\ s[j] = ".") => i = j
  /\ \E i \in 1..Len(s) : s[i] # "."

\* The number a decimal string denotes, as <<n, k>> for n / 10^k; the string
\* may end in an exponent "e-XX".
C4_Value(s) ==
  LET epos == IF InList("e", s) THEN IndexOf("e", s) ELSE Len(s) + 1
      mantissa == SubSeq(s, 1, epos - 1)
      exponent == IF epos > Len(s) THEN 0 ELSE DigitsValue(SubSeq(s, epos + 2, Len(s)))
      dot == IF InList(".", mantissa) THEN IndexOf(".", mantissa) ELSE Len(mantissa) + 1
      digits == SelectSeq(mantissa, LAMBDA c : c # ".")
      decimals == IF dot > Len(mantissa) THEN 0 ELSE Len(mantissa) - dot
  IN <<DigitsValue(digits), decimals + exponent>>

RECURSIVE C4_Pow10(_)
C4_Pow10(k) == IF k <= 0 THEN 1 ELSE 10 * C4_Pow10(k - 1)

C4_SameNumber(x, y) ==
  LET k == IF x[2] > y[2] THEN x[2] ELSE y[2]
  IN x[1] * C4_Pow10(k - x[2]) = y[1] * C4_Pow10(k - y[2])

\* How Python prints a float: digits, a dot and digits, with no zero to
\* spare at either end, or one digit, an optional fraction and an exponent.
C4_IsFloatString(s) ==
  IF InList("e", s)
  THEN /\ s[1] \in {"1","2","3","4","5","6","7","8","9"}
       /\ s[Len(s)] # "." 
  ELSE /\ InList(".", s)
       /\ IndexOf(".", s) > 1
       /\ IndexOf(".", s) < Len(s)
       /\ (s[1] = "0" => s[2] = ".")
       /\ (s[Len(s)] = "0" => s[Len(s) - 1] = ".")

C4_CleanPriceNormalizes ==
  ret.t = "_clean_price" =>
    LET remainder == C4_Remainder(ret.in.s)
    IN /\ (ret.out = NULL) <=> ~C4_IsNumber(remainder)
       /\ ret.out # NULL =>
            /\ ret.out.t = "str"
            /\ C4_IsFloatString(ret.out.s)
            /\ C4_SameNumber(C4_Value(ret.out.s), C4_Value(remainder))
       /\ ret.in = StrVal(<<"$","1",",","2","3","4",".","5","6">>) => ret.out = StrVal(<<"1","2","3","4",".","5","6">>)
       /\ ret.in = StrVal(<<"1","9",",","9","9">>) => ret.out = StrVal(<<"1","9",".","9","9">>)
       /\ ret.in = StrVal(<<"a","b","c">>) => ret.out = NULL

\* C4 witness: a value with a comma and a dot, cleaned of its commas.
C4_Witness ==
  /\ ret.t = "_clean_price"
  /\ InList(",", ret.in.s)
  /\ InList(".", ret.in.s)
  /\ InList("$", ret.in.s)
  /\ ret.out = StrVal(<<"1", ".", "1">>)

-----------------------------------------------------------------------------
(* Caller of _clean_image_urls *)

MaxImagePieces == 4

ImagePieces ==
  {<<"h","t","t","p",":","/","/","a",".","j","p","g">>, <<"f","t","p",":","/","/","b",".","j","p","g">>, <<"h">>, <<";">>, <<",">>, <<"|">>, <<"\n">>, <<" ">>}

ImageSeeds ==
  {<<>>, <<"h","t","t","p",":","/","/","a",".","j","p","g",";"," ","f","t","p",":","/","/","b",".","j","p","g",",","h","t","t","p",":","/","/","c",".","j","p","g">>}

InitImage ==
  /\ NoTables
  /\ NoSession
  /\ op = "_clean_image_urls"
  /\ arg \in ImageSeeds
  /\ typed = 0
  /\ ret = NotCalled

TypeImagePiece ==
  /\ op = "_clean_image_urls"
  /\ arg \in ImageSeeds => arg = <<>>
  /\ typed < MaxImagePieces
  /\ \E piece \in ImagePieces : Type(piece)

CallCleanImageUrls ==
  /\ op = "_clean_image_urls"
  /\ ret' = Returned("_clean_image_urls", StrVal(arg), _clean_image_urls(StrVal(arg)))
  /\ UNCHANGED <<op, arg, typed>>
  /\ TablesUnchanged
  /\ SessionUnchanged

NextImage == TypeImagePiece \/ CallCleanImageUrls

SpecImage == InitImage /\ [][NextImage]_vars

\* C5: _clean_image_urls cuts its input at every ';', ',', '|' and newline,
\* trims the segments, keeps those that start with "http", in their order,
\* and joins them with ','; it returns null when none is kept.
\* "http://a.jpg; ftp://b.jpg,http://c.jpg" gives "http://a.jpg,http://c.jpg".
C5_Separators == {";", ",", "|", "\n"}

\* The trimmed segments of s that start with "http", found by the places
\* of the separators: a segment lies between two neighbouring cuts.
C5_Kept(s) ==
  LET cuts == {0, Len(s) + 1} \cup {i \in 1..Len(s) : s[i] \in C5_Separators}
      next(i) == CHOOSE j \in cuts : j > i /\ \A k \in cuts : k > i => j <= k
      K[i \in 0..(Len(s) + 1)] ==
        IF i = Len(s) + 1 THEN <<>>
        ELSE IF i \notin cuts THEN K[i + 1]
        ELSE LET segment == Strip(SubSeq(s, i + 1, next(i) - 1))
             IN (IF Len(segment) >= 4 /\ SubSeq(segment, 1, 4) = <<"h","t","t","p">>
                 THEN <<segment>> ELSE <<>>) \o K[next(i)]
  IN K[0]

C5_CleanImageUrlsKeepsHttpSegments ==
  ret.t = "_clean_image_urls" =>
    LET kept == C5_Kept(ret.in.s)
    IN /\ (ret.out = NULL) <=> (kept = <<>>)
       /\ kept # <<>> => ret.out = StrVal(Join(kept, <<",">>))
       /\ ret.in = StrVal(<<"h","t","t","p",":","/","/","a",".","j","p","g",";"," ","f","t","p",":","/","/","b",".","j","p","g",",","h","t","t","p",":","/","/","c",".","j","p","g">>) => ret.out = StrVal(<<"h","t","t","p",":","/","/","a",".","j","p","g",",","h","t","t","p",":","/","/","c",".","j","p","g">>)

\* C5 witness: the input of three segments whose middle one is dropped and
\* whose other two are kept in order.
C5_Witness ==
  /\ ret.t = "_clean_image_urls"
  /\ Len(SplitClass(ret.in.s, C5_Separators)) = 3
  /\ Len(C5_Kept(ret.in.s)) = 2
  /\ ret.out # NULL
  /\ Contains(ret.out.s, <<",">>)

-----------------------------------------------------------------------------
(* Caller of transform_data: main() reads a file into df, takes a platform *)
(* and a mapping, and calls transform_data, any number of times.           *)

MaxRows == 2

MaxCalls == 2

\* A frame read from a file: the rows are tuples of cells, in column order,
\* under the default RangeIndex.
FrameOf(columns, rows) ==
  DataFrame(columns, [i \in 1..Len(rows) |-> i - 1],
            [c \in Range(columns) |-> [i \in 1..Len(rows) |-> rows[i][IndexOf(c, columns)]]])

\* The rows of a frame, as tuples of cells in column order.
RowsOf(d) == [i \in 1..Rows(d) |-> [j \in 1..Len(d.columns) |-> d.data[d.columns[j]][i]]]

\* The columns of a Shopify export and of a plain export.
ShopifyColumns ==
  <<<<"T","i","t","l","e">>, <<"B","o","d","y"," ","(","H","T","M","L",")">>, <<"V","e","n","d","o","r">>, <<"V","a","r","i","a","n","t"," ","P","r","i","c","e">>, <<"P","r","o","d","u","c","t"," ","C","a","t","e","g","o","r","y">>>>

PlainColumns ==
  <<<<"n","a","m","e">>, <<"d","e","s","c","r","i","p","t","i","o","n">>, <<"p","r","i","c","e">>, <<"c","a","t","e","g","o","r","y","_","i","d">>, <<"I","m","a","g","e">>, <<"S","i","z","e">>>>

ShopifyRows ==
  {<<StrVal(<<"S","h","i","r","t">>), StrVal(<<"N","i","c","e">>), StrVal(<<"A","c","m","e">>), StrVal(<<"$","9",".","9","9">>), StrVal(<<"A","p","p","a","r","e","l"," ",">"," ","S","h","i","r","t","s">>)>>,
   <<NULL, StrVal(<<"N","i","c","e">>), StrVal(<<"A","c","m","e">>), StrVal(<<"a","b","c">>), NULL>>,
   <<StrVal(<<" ">>), StrVal(<<"W","a","r","m">>), NULL, StrVal(<<"1","9",",","9","9">>), StrVal(<<"H","a","t","s">>)>>,
   <<StrVal(<<"H","a","t">>), StrVal(<<>>), StrVal(<<"A","c","m","e">>), StrVal(<<"5">>), StrVal(<<"A","p","p","a","r","e","l">>)>>,
   <<StrVal(<<"H","a","t">>), StrVal(<<"W","a","r","m">>), StrVal(<<"A","c","m","e">>), StrVal(<<"1",",","2","3","4",".","5","6">>), StrVal(<<"C","l","o","t","h","i","n","g"," ",">"," ","T","-","S","h","i","r","t","s"," ",">"," ","T","e","e","s">>)>>}

PlainRows ==
  {<<StrVal(<<"M","u","g">>), StrVal(<<"B","i","g">>), StrVal(<<"3",".","5","0">>), StrVal(<<"7">>), StrVal(<<"h","t","t","p",":","/","/","a",".","j","p","g",";"," ","f","t","p",":","/","/","b",".","j","p","g">>), StrVal(<<"L">>)>>,
   <<StrVal(<<"C","u","p">>), StrVal(<<"T","i","n","y">>), NULL, NULL, NULL, NULL>>,
   <<NULL, NULL, NULL, NULL, NULL, NULL>>,
   <<StrVal(<<"P","a","n">>), StrVal(<<" ">>), StrVal(<<"1">>), StrVal(<<"x">>), StrVal(<<"x">>), StrVal(<<" ">>)>>}

\* An export with no column a variant keyword occurs in.
BareColumns ==
  <<<<"n","a","m","e">>, <<"d","e","s","c","r","i","p","t","i","o","n">>, <<"A","t","t","r">>>>

BareRows ==
  {<<StrVal(<<"M","u","g">>), StrVal(<<"B","i","g">>), StrVal(<<"R","e","d">>)>>,
   <<StrVal(<<"C","u","p">>), StrVal(<<"T","i","n","y">>), NULL>>,
   <<NULL, StrVal(<<"T","i","n","y">>), StrVal(<<"B","l","u","e">>)>>}

RowChoices(columns) ==
  IF columns = ShopifyColumns THEN ShopifyRows
  ELSE IF columns = PlainColumns THEN PlainRows
  ELSE BareRows

PlatformChoices ==
  {NULL, StrVal(<<"s","h","o","p","i","f","y">>), StrVal(<<"e","t","s","y">>)}

\* The reference files of a deployment.
SampleCategories ==
  Table(<<[id |-> IntVal(1), name |-> <<"A","p","p","a","r","e","l">>, parent |-> NULL],
    [id |-> IntVal(2), name |-> <<"H","o","m","e">>, parent |-> NULL]>>)

SampleSubCategories ==
  Table(<<[id |-> IntVal(10), name |-> <<"S","h","i","r","t","s">>, parent |-> IntVal(1)],
    [id |-> IntVal(11), name |-> <<"T","-","S","h","i","r","t","s">>, parent |-> IntVal(1)],
    [id |-> IntVal(12), name |-> <<"H","a","t","s">>, parent |-> IntVal(2)]>>)

SampleSubSubCategories ==
  Table(<<[id |-> IntVal(100), name |-> <<"T","e","e","s">>, parent |-> IntVal(11)]>>)

\* A categories file whose ids are not numbers: int() raises on them.
LetteredCategories ==
  Table(<<[id |-> StrVal(<<"A","1">>), name |-> <<"A","p","p","a","r","e","l">>, parent |-> NULL]>>)

\* The mapping main() passes when the user leaves every select box as it is:
\* the suggested column of each target field, required fields first.
UiMapping(suggested, columns) ==
  LET fields == SelectSeq(ALL_SALAAZ_COLUMNS, LAMBDA f :
                  DictHas(suggested, f) /\ InList(DictGet(suggested, f), columns))
  IN [i \in 1..Len(fields) |-> <<fields[i], DictGet(suggested, fields[i])>>]

\* The mappings a caller passes: the suggested one as returned, the one of
\* main(), and an empty one.
MappingChoices(columns, platform_name) ==
  {suggest_mapping(columns, platform_name),
   UiMapping(suggest_mapping(columns, platform_name), columns),
   <<>>}

InitTransform ==
  /\ \/ /\ categories_df = NULL
        /\ sub_categories_df = NULL
        /\ sub_sub_categories_df = NULL
     \/ /\ categories_df = SampleCategories
        /\ sub_categories_df = SampleSubCategories
        /\ sub_sub_categories_df = SampleSubSubCategories
     \/ /\ categories_df = LetteredCategories
        /\ sub_categories_df = NULL
        /\ sub_sub_categories_df = NULL
  /\ \E columns \in {ShopifyColumns, PlainColumns, BareColumns} : df = FrameOf(columns, <<>>)
  /\ platform \in PlatformChoices
  /\ mapping \in MappingChoices(df.columns, platform)
  /\ op = "transform_data"
  /\ arg = <<>>
  /\ typed = 0
  /\ ret = NotCalled
  /\ calls = 0
  /\ first = NotCalled

\* The file has one more row.
AddRow ==
  /\ op = "transform_data"
  /\ Rows(df) < MaxRows
  /\ \E row \in RowChoices(df.columns) : df' = FrameOf(df.columns, Append(RowsOf(df), row))
  /\ ret' = NotCalled
  /\ calls' = 0
  /\ first' = NotCalled
  /\ UNCHANGED <<mapping, platform, op, arg, typed>>
  /\ TablesUnchanged

\* The inputs of a call, and with out what it returned.
Snapshot(out) ==
  [df |-> df, mapping |-> mapping, platform |-> platform,
   tables |-> Tables(categories_df, sub_categories_df, sub_sub_categories_df), out |-> out]

CallTransformData ==
  /\ op = "transform_data"
  /\ calls < MaxCalls
  /\ \E r \in {transform_data(df, mapping, platform,
                                Tables(categories_df, sub_categories_df, sub_sub_categories_df))} :
       /\ ret' = Returned("transform_data", Snapshot(NULL), r.result)
       /\ df' = r.df
       /\ first' = IF calls = 0 THEN Snapshot(r.result) ELSE first
  /\ calls' = calls + 1
  /\ UNCHANGED <<mapping, platform, op, arg, typed>>
  /\ TablesUnchanged

NextTransform == AddRow \/ CallTransformData

SpecTransform == InitTransform /\ [][NextTransform]_vars

C7_ShirtRow ==
  <<StrVal(<<"S","h","i","r","t">>), StrVal(<<"N","i","c","e">>), StrVal(<<"A","c","m","e">>), StrVal(<<"$","9",".","9","9">>), StrVal(<<"A","p","p","a","r","e","l"," ",">"," ","S","h","i","r","t","s">>)>>

\* The call of the end-to-end scenario has returned.
C7_Scenario ==
  /\ ret.t = "transform_data"
  /\ ret.in.df = FrameOf(ShopifyColumns, <<C7_ShirtRow>>)
  /\ ret.in.platform = StrVal(<<"s","h","o","p","i","f","y">>)
  /\ ret.in.mapping = suggest_mapping(ShopifyColumns, StrVal(<<"s","h","o","p","i","f","y">>))
  /\ ret.in.tables = Tables(NULL, NULL, NULL)

\* The one row returned, with the given cell in category_id and sub_category_id.
C7_OneRow(id) ==
  /\ Rows(ret.out) = 1
  /\ ret.out.data[<<"n","a","m","e">>][1] = StrVal(<<"S","h","i","r","t">>)
  /\ ret.out.data[<<"d","e","s","c","r","i","p","t","i","o","n">>][1] = StrVal(<<"N","i","c","e">>)
  /\ ret.out.data[<<"b","r","a","n","d">>][1] = StrVal(<<"A","c","m","e">>)
  /\ ret.out.data[<<"p","r","i","c","e">>][1] = StrVal(<<"9",".","9","9">>)
  /\ ret.out.data[<<"c","a","t","e","g","o","r","y","_","i","d">>][1] = id
  /\ ret.out.data[<<"s","u","b","_","c","a","t","e","g","o","r","y","_","i","d">>][1] = id

\* C7: end-to-end, with no reference tables loaded, the Shirt row under
\* platform shopify and the suggested mapping comes back as exactly one row
\* with name "Shirt", description "Nice", brand "Acme", price "9.99", and the
\* integer 1 in category_id and in sub_category_id.
C7_EndToEndShirtRow == C7_Scenario => C7_OneRow(IntVal(1))

C7_Witness == C7_Scenario /\ Rows(ret.out) = 1

\* C7 as the specification states it: category_id and sub_category_id are the
\* string "1".
C7_EndToEndShirtRowWithStringIds == C7_Scenario => C7_OneRow(StrVal(<<"1">>))

\* The cell the mapping gives a target field on source row i: the cell of the
\* mapped source column, null when the field has no source column.
C8_Mapped(field, i) ==
  IF /\ DictHas(ret.in.mapping, field)
     /\ DictGet(ret.in.mapping, field) # <<>>
     /\ InList(DictGet(ret.in.mapping, field), ret.in.df.columns)
  THEN ret.in.df.data[DictGet(ret.in.mapping, field)][i]
  ELSE NULL

C8_Blank(cell) ==
  \/ cell.t = "null"
  \/ cell.t = "str" /\ \A k \in 1..Len(cell.s) : cell.s[k] = " "

\* The source rows with a name and a description, in input order.
C8_Survivors ==
  SelectSeq([i \in 1..Rows(ret.in.df) |-> i], LAMBDA i :
    ~C8_Blank(C8_Mapped(<<"n","a","m","e">>, i)) /\ ~C8_Blank(C8_Mapped(<<"d","e","s","c","r","i","p","t","i","o","n">>, i)))

\* C8: the rows transform_data returns are exactly the source rows whose mapped
\* name and mapped description are both non-null and non-blank, one output row
\* for each, in input order.
C8_OutputIsTheRowsWithNameAndDescription ==
  ret.t = "transform_data" =>
    /\ Rows(ret.out) = Len(C8_Survivors)
    /\ \A k \in 1..Rows(ret.out) :
         /\ ret.out.index[k] = C8_Survivors[k] - 1
         /\ ret.out.data[<<"n","a","m","e">>][k] = C8_Mapped(<<"n","a","m","e">>, C8_Survivors[k])
         /\ ret.out.data[<<"d","e","s","c","r","i","p","t","i","o","n">>][k] = C8_Mapped(<<"d","e","s","c","r","i","p","t","i","o","n">>, C8_Survivors[k])

\* Of two source rows the first, with a blank name or description, is gone
\* and the second is returned.
C8_Witness ==
  /\ ret.t = "transform_data"
  /\ Rows(ret.in.df) = 2
  /\ C8_Blank(C8_Mapped(<<"n","a","m","e">>, 1)) \/ C8_Blank(C8_Mapped(<<"d","e","s","c","r","i","p","t","i","o","n">>, 1))
  /\ ret.out.index = <<1>>

\* C9: every row of the table transform_data returns has a non-null
\* category_id, whatever the input table, the mapping and the platform.
C9_CategoryIdIsNeverNull ==
  ret.t = "transform_data" =>
    \A i \in 1..Rows(ret.out) : ret.out.data[<<"c","a","t","e","g","o","r","y","_","i","d">>][i] # NULL

\* A returned row whose category_id the mapping left null and no category
\* step set: it has the default.
C9_Witness ==
  /\ ret.t = "transform_data"
  /\ \E i \in 1..Rows(ret.out) :
       /\ C8_Mapped(<<"c","a","t","e","g","o","r","y","_","i","d">>, ret.out.index[i] + 1) = NULL
       /\ ret.out.data[<<"c","a","t","e","g","o","r","y","_","i","d">>][i] = StrVal(<<"1">>)

\* C10: the columns of the table transform_data returns are exactly the 15
\* target fields, the 5 required ones then the 10 optional ones, for every
\* input table and every mapping, the one suggest_mapping returns included.
C10_OutputColumnsAreTheTargetFields ==
  ret.t = "transform_data" => ret.out.columns = ALL_SALAAZ_COLUMNS

-----------------------------------------------------------------------------
(* Caller of suggest_mapping: main() passes the columns of the uploaded     *)
(* file, in file order, and the platform detected.                          *)

MaxColumns == 3

SourceColumnPool ==
  {<<"T","I","T","L","E">>,
   <<"P","r","o","d","u","c","t"," ","T","i","t","l","e">>,
   <<"N","a","m","e">>,
   <<"P","r","o","d","u","c","t"," ","N","a","m","e">>,
   <<"P","r","o","d","u","c","t">>,
   <<"C","o","s","t">>,
   <<"T","y","p","e">>,
   <<"C","a","t","e","g","o","r","y">>,
   <<"i","d">>}

SuggestPlatforms ==
  {NULL, StrVal(<<"s","h","o","p","i","f","y">>), StrVal(<<"a","m","a","z","o","n">>), StrVal(<<"e","t","s","y">>)}

InitSuggest ==
  /\ NoTables
  /\ df = EmptyDataFrame
  /\ mapping = <<>>
  /\ platform \in SuggestPlatforms
  /\ calls = 0
  /\ first = NotCalled
  /\ op = "suggest_mapping"
  /\ arg = <<>>
  /\ typed = 0
  /\ ret = NotCalled

\* The file has one more column, after those it has.
AddSourceColumn ==
  /\ op \in {"suggest_mapping", "_fuzzy_match_column"}
  /\ Len(arg) < MaxColumns
  /\ \E col \in SourceColumnPool :
       /\ ~InList(col, arg)
       /\ arg' = Append(arg, col)
  /\ typed' = typed + 1
  /\ ret' = NotCalled
  /\ UNCHANGED op
  /\ TablesUnchanged
  /\ SessionUnchanged

CallSuggestMapping ==
  /\ op = "suggest_mapping"
  /\ ret' = Returned("suggest_mapping", [source_columns |-> arg, platform |-> platform],
                     suggest_mapping(arg, platform))
  /\ UNCHANGED <<op, arg, typed>>
  /\ TablesUnchanged
  /\ SessionUnchanged

NextSuggest == AddSourceColumn \/ CallSuggestMapping

SpecSuggest == InitSuggest /\ [][NextSuggest]_vars

\* C11: every key of the mapping suggest_mapping returns is one of the 15
\* target fields, for every list of source columns and every platform or none.
C11_SuggestedKeysAreTargetFields ==
  ret.t = "suggest_mapping" =>
    \A i \in 1..Len(ret.out) : InList(ret.out[i][1], ALL_SALAAZ_COLUMNS)

-----------------------------------------------------------------------------
(* validate_salaaz_data *)

(* Whether float(v) returns: an int, or a str that, trimmed, is digits with *)
(* at most one dot and at least one digit, with or without an exponent      *)
(* e[+-]digits.  Signs of the mantissa, underscores, "inf" and "nan" are     *)
(* beyond the strings of the model.                                          *)
FloatAccepts(v) ==
  CASE v.t = "int" -> TRUE
    [] v.t = "str" ->
         LET d == Strip(v.s)
             e == IF InList("e", d) THEN IndexOf("e", d) ELSE Len(d) + 1
             mantissa == SubSeq(d, 1, e - 1)
             exponent == SubSeq(d, e + 1, Len(d))
             digits == IF exponent # <<>> /\ Head(exponent) \in {"-", "+"}
                       THEN Tail(exponent) ELSE exponent
         IN /\ \A i \in 1..Len(mantissa) : IsDigit(mantissa[i]) \/ mantissa[i] = "."
            /\ FloatParses(mantissa)
            /\ e <= Len(d) => (digits # <<>> /\ \A i \in 1..Len(digits) : IsDigit(digits[i]))
    [] OTHER -> FALSE

\* df[col].isna().sum()
MissingCount(d, col) == Cardinality({i \in 1..Rows(d) : IsNull(d.data[col][i])})

\* The loop "Check required columns", over the columns given.
RECURSIVE RequiredIssues(_, _)
RequiredIssues(d, cols) ==
  IF cols = <<>> THEN <<>>
  ELSE (IF ~InList(Head(cols), d.columns)
        THEN <<<<"M","i","s","s","i","n","g"," ","r","e","q","u","i","r","e","d"," ","c","o","l","u","m","n",":"," ">> \o Head(cols)>>
        ELSE IF MissingCount(d, Head(cols)) > 0
        THEN <<<<"C","o","l","u","m","n"," ","'">> \o Head(cols) \o <<"'"," ","h","a","s"," ">>
               \o NatStr(MissingCount(d, Head(cols))) \o <<" ","m","i","s","s","i","n","g"," ","v","a","l","u","e","s">>>>
        ELSE <<>>)
       \o RequiredIssues(d, Tail(cols))

\* The warning of the price check, if any.
PriceWarnings(d) ==
  IF InList(<<"p","r","i","c","e">>, d.columns)
     /\ \E i \in 1..Rows(d) : ~IsNull(d.data[<<"p","r","i","c","e">>][i]) /\ ~FloatAccepts(d.data[<<"p","r","i","c","e">>][i])
  THEN <<NatStr(Cardinality({i \in 1..Rows(d) :
             ~IsNull(d.data[<<"p","r","i","c","e">>][i]) /\ ~FloatAccepts(d.data[<<"p","r","i","c","e">>][i])}))
         \o <<" ","r","o","w","s"," ","h","a","v","e"," ","i","n","v","a","l","i","d"," ","p","r","i","c","e"," ","f","o","r","m","a","t">>>>
  ELSE <<>>

\* The warning of the category_id check, if any.
CategoryWarnings(d) ==
  IF InList(<<"c","a","t","e","g","o","r","y","_","i","d">>, d.columns)
     /\ \E i \in 1..Rows(d) : ~IsNull(d.data[<<"c","a","t","e","g","o","r","y","_","i","d">>][i]) /\ PyInt(d.data[<<"c","a","t","e","g","o","r","y","_","i","d">>][i]) = RAISED
  THEN <<NatStr(Cardinality({i \in 1..Rows(d) :
             ~IsNull(d.data[<<"c","a","t","e","g","o","r","y","_","i","d">>][i]) /\ PyInt(d.data[<<"c","a","t","e","g","o","r","y","_","i","d">>][i]) = RAISED}))
         \o <<" ","r","o","w","s"," ","h","a","v","e"," ","i","n","v","a","l","i","d"," ","c","a","t","e","g","o","r","y","_","i","d"," ","f","o","r","m","a","t">>>>
  ELSE <<>>

\* len(df.dropna(subset=self.SALAAZ_REQUIRED_COLUMNS)), every column of the
\* subset being a column of df
CompleteRows(d) ==
  Cardinality({i \in 1..Rows(d) :
                 \A c \in Range(SALAAZ_REQUIRED_COLUMNS) : ~IsNull(d.data[c][i])})

\* A report that is valid only without warnings.
ReportStrict(issues, warnings, total_rows, complete_rows) ==
  [t |-> "report", valid |-> Len(issues) = 0 /\ Len(warnings) = 0, issues |-> issues,
   warnings |-> warnings, total_rows |-> total_rows, complete_rows |-> complete_rows]

\* The dict returned.
Report(issues, warnings, total_rows, complete_rows) ==
  [t |-> "report", valid |-> Len(issues) = 0, issues |-> issues, warnings |-> warnings,
   total_rows |-> total_rows, complete_rows |-> complete_rows]

\* validate_salaaz_data(df): the report, or RAISED: dropna raises KeyError
\* when a column of its subset is not a column of df.
validate_salaaz_data(d) ==
  IF \E c \in Range(SALAAZ_REQUIRED_COLUMNS) : ~InList(c, d.columns)
  THEN RAISED
  ELSE Report(RequiredIssues(d, SALAAZ_REQUIRED_COLUMNS),
              PriceWarnings(d) \o CategoryWarnings(d), Rows(d), CompleteRows(d))

-----------------------------------------------------------------------------
(* Caller of validate_salaaz_data *)

\* The required columns, all or all but one.
ReportColumns ==
  {SALAAZ_REQUIRED_COLUMNS}
  \cup {SelectSeq(SALAAZ_REQUIRED_COLUMNS, LAMBDA c : c # without) :
          without \in Range(SALAAZ_REQUIRED_COLUMNS)}

\* Rows of a table, as cells of name, description, price, brand, category_id.
ReportRows ==
  {<<StrVal(<<"M","u","g">>), StrVal(<<"B","i","g">>), StrVal(<<"3",".","5">>), StrVal(<<"A","c","m","e">>), StrVal(<<"7">>)>>,
   <<NULL, StrVal(<<"B","i","g">>), StrVal(<<"3",".","5">>), StrVal(<<"A","c","m","e">>), StrVal(<<"7">>)>>,
   <<StrVal(<<"M","u","g">>), NULL, NULL, StrVal(<<"A","c","m","e">>), StrVal(<<"7">>)>>,
   <<StrVal(<<"M","u","g">>), StrVal(<<"B","i","g">>), StrVal(<<"a","b","c">>), StrVal(<<"A","c","m","e">>), StrVal(<<"x">>)>>,
   <<StrVal(<<"M","u","g">>), StrVal(<<"B","i","g">>), StrVal(<<"1","e","-","0","5">>), StrVal(<<"A","c","m","e">>), IntVal(1)>>,
   <<StrVal(<<>>), StrVal(<<"B","i","g">>), NULL, NULL, NULL>>}

InitValidate ==
  /\ NoTables
  /\ \E columns \in ReportColumns : df = FrameOf(columns, <<>>)
  /\ mapping = <<>>
  /\ platform = NULL
  /\ calls = 0
  /\ first = NotCalled
  /\ op = "validate_salaaz_data"
  /\ arg = <<>>
  /\ typed = 0
  /\ ret = NotCalled

\* The table has one more row: the cells of the row for the columns it has.
AddReportRow ==
  /\ op = "validate_salaaz_data"
  /\ Rows(df) < MaxRows
  /\ \E row \in ReportRows :
       df' = FrameOf(df.columns, Append(RowsOf(df),
               [j \in 1..Len(df.columns) |-> row[IndexOf(df.columns[j], SALAAZ_REQUIRED_COLUMNS)]]))
  /\ ret' = NotCalled
  /\ UNCHANGED <<mapping, platform, calls, first, op, arg, typed>>
  /\ TablesUnchanged

CallValidateSalaazData ==
  /\ op = "validate_salaaz_data"
  /\ ret' = Returned("validate_salaaz_data", df, validate_salaaz_data(df))
  /\ UNCHANGED <<op, arg, typed>>
  /\ TablesUnchanged
  /\ SessionUnchanged

NextValidate == AddReportRow \/ CallValidateSalaazData

SpecValidate == InitValidate /\ [][NextValidate]_vars

\* The number of null cells of a column of the table validated.
C12_Nulls(c) == Cardinality({i \in 1..Rows(ret.in) : ret.in.data[c][i] = NULL})

\* C12: on a table lacking a required column validate_salaaz_data returns a
\* report, with an issue naming the column and valid false; for a required
\* column present with N > 0 nulls the report has an issue citing N.
C12_ValidationReportsMissingColumns ==
  ret.t = "validate_salaaz_data" =>
    /\ ret.out # RAISED
    /\ \A c \in Range(SALAAZ_REQUIRED_COLUMNS) :
         IF ~InList(c, ret.in.columns)
         THEN /\ \E k \in 1..Len(ret.out.issues) : Contains(ret.out.issues[k], c)
              /\ ~ret.out.valid
         ELSE C12_Nulls(c) > 0 =>
                \E k \in 1..Len(ret.out.issues) :
                  /\ Contains(ret.out.issues[k], c)
                  /\ Contains(ret.out.issues[k], NatStr(C12_Nulls(c)))

C13_AllRequired == \A c \in Range(SALAAZ_REQUIRED_COLUMNS) : InList(c, ret.in.columns)

C13_Complete ==
  Cardinality({i \in 1..Rows(ret.in) :
                 \A c \in Range(SALAAZ_REQUIRED_COLUMNS) : ret.in.data[c][i] # NULL})

\* C13: on a table with the five required columns the report has total_rows
\* the number of rows, complete_rows the number of rows without a null in a
\* required field, and valid is true exactly when issues is empty, which is
\* exactly when complete_rows = total_rows, whatever the warnings.
C13_ReportCountsAndValid ==
  (ret.t = "validate_salaaz_data" /\ C13_AllRequired) =>
    /\ ret.out # RAISED
    /\ ret.out.total_rows = Rows(ret.in)
    /\ ret.out.complete_rows = C13_Complete
    /\ ret.out.valid <=> (ret.out.issues = <<>>)
    /\ (ret.out.issues = <<>>) <=> (ret.out.complete_rows = ret.out.total_rows)

\* A report of two complete rows that is valid and has a warning.
C13_Witness ==
  /\ ret.t = "validate_salaaz_data"
  /\ C13_AllRequired
  /\ Rows(ret.in) = 2
  /\ ret.out.valid
  /\ ret.out.complete_rows = 2
  /\ ret.out.warnings # <<>>

\* The category step of the call that returned ran and raised.
C14_Raised ==
  /\ ret.t = "transform_data"
  /\ MappedFrame(ret.in.df, CategorySourceColumn(ret.in.df, ret.in.platform),
                 ret.in.tables) = RAISED

\* C14: when a category-source column is present and category resolution
\* raises, transform_data still returns a table, and in it category_id is the
\* default 1 for every row, not a value copied from a mapped source column.
C14_RaisedCategoryStepGivesDefaults ==
  C14_Raised =>
    \A i \in 1..Rows(ret.out) :
      \/ ret.out.data[<<"c","a","t","e","g","o","r","y","_","i","d">>][i] = IntVal(1)
      \/ ret.out.data[<<"c","a","t","e","g","o","r","y","_","i","d">>][i] = StrVal(<<"1">>)

\* The category-source column of the call that returned, or NULL.
C15_Column == CategorySourceColumn(ret.in.df, ret.in.platform)

\* What the resolver gives for the category string of source row j.
C15_Resolved(j) ==
  FindIds(parse_shopify_category(ret.in.df.data[C15_Column.s][j]), ret.in.tables)

C15_OrOne(id) == IF id = NULL THEN IntVal(1) ELSE id

C16_Ids(i, category_id) ==
  /\ ret.out.data[<<"c","a","t","e","g","o","r","y","_","i","d">>][i] = category_id
  /\ ret.out.data[<<"s","u","b","_","c","a","t","e","g","o","r","y","_","i","d">>][i] = C8_Mapped(<<"s","u","b","_","c","a","t","e","g","o","r","y","_","i","d">>, ret.out.index[i] + 1)
  /\ ret.out.data[<<"s","u","b","_","s","u","b","_","c","a","t","e","g","o","r","y","_","i","d">>][i]
       = C8_Mapped(<<"s","u","b","_","s","u","b","_","c","a","t","e","g","o","r","y","_","i","d">>, ret.out.index[i] + 1)

\* No category-source column is available to the call that returned.
C16_NoCategorySource == ret.t = "transform_data" /\ ~Truthy(C15_Column)

\* C16: without a category-source column (no platform, or none of its
\* candidates among the columns), the category_id of every output row is the
\* value the mapping copied from the source row, and the default "1" where
\* that is null; sub_category_id and sub_sub_category_id are as the mapping
\* copied them, the category step setting nothing.
C16_NoCategorySourceKeepsMappedIds ==
  C16_NoCategorySource =>
    \A i \in 1..Rows(ret.out) :
      C16_Ids(i, IF C8_Mapped(<<"c","a","t","e","g","o","r","y","_","i","d">>, ret.out.index[i] + 1) = NULL
                 THEN StrVal(<<"1">>)
                 ELSE C8_Mapped(<<"c","a","t","e","g","o","r","y","_","i","d">>, ret.out.index[i] + 1))

\* Two rows returned without a category step: one has the default, the other
\* the category_id of its source row.
C16_Witness ==
  /\ C16_NoCategorySource
  /\ \E i, k \in 1..Rows(ret.out) :
       /\ C8_Mapped(<<"c","a","t","e","g","o","r","y","_","i","d">>, ret.out.index[i] + 1) = NULL
       /\ ret.out.data[<<"c","a","t","e","g","o","r","y","_","i","d">>][i] = StrVal(<<"1">>)
       /\ ret.out.data[<<"c","a","t","e","g","o","r","y","_","i","d">>][k] = StrVal(<<"7">>)

\* C16 as the specification states it: category_id is the default for every
\* output row.
C16_NoCategorySourceGivesDefault ==
  C16_NoCategorySource =>
    \A i \in 1..Rows(ret.out) : C16_Ids(i, StrVal(<<"1">>)) \/ C16_Ids(i, IntVal(1))

-----------------------------------------------------------------------------
(* Caller of find_category_ids *)

\* Reference tables in which a name occurs under several parents.
NestedCategories == Table(<<[id |-> IntVal(1), name |-> <<"A","p","p","a","r","e","l">>, parent |-> NULL], [id |-> IntVal(2), name |-> <<"H","o","m","e">>, parent |-> NULL]>>)

NestedSubCategories == Table(<<[id |-> IntVal(10), name |-> <<"S","h","i","r","t","s">>, parent |-> IntVal(1)],
         [id |-> IntVal(11), name |-> <<"S","h","i","r","t","s">>, parent |-> IntVal(2)],
         [id |-> IntVal(12), name |-> <<"H","a","t","s">>, parent |-> IntVal(2)]>>)

NestedSubSubCategories == Table(<<[id |-> IntVal(100), name |-> <<"T","e","e","s">>, parent |-> IntVal(10)],
         [id |-> IntVal(101), name |-> <<"T","e","e","s">>, parent |-> IntVal(11)],
         [id |-> IntVal(102), name |-> <<"C","a","p","s">>, parent |-> IntVal(12)]>>)

LevelNames ==
  {<<c, s, ss>> : c \in {NULL, StrVal(<<"A","p","p","a","r","e","l">>), StrVal(<<"H","o","m","e">>), StrVal(<<"T","o","y","s">>)}, s \in {NULL, StrVal(<<"S","h","i","r","t","s">>), StrVal(<<"H","a","t","s">>), StrVal(<<"S","o","c","k","s">>)}, ss \in {NULL, StrVal(<<"T","e","e","s">>), StrVal(<<"C","a","p","s">>)}}

InitFind ==
  /\ categories_df \in {NULL, NestedCategories}
  /\ sub_categories_df \in {NULL, NestedSubCategories}
  /\ sub_sub_categories_df \in {NULL, NestedSubSubCategories}
  /\ NoSession
  /\ op = "find_category_ids"
  /\ arg = <<>>
  /\ typed = 0
  /\ ret = NotCalled

\* The caller has the three levels of a category string.
ChooseLevels ==
  /\ op = "find_category_ids"
  /\ typed = 0
  /\ \E levels \in LevelNames : arg' = levels
  /\ typed' = 1
  /\ UNCHANGED <<op, ret>>
  /\ TablesUnchanged
  /\ SessionUnchanged

CallFindCategoryIds ==
  /\ op = "find_category_ids"
  /\ typed = 1
  /\ ret' = Returned("find_category_ids", arg,
                     find_category_ids(arg[1], arg[2], arg[3], categories_df,
                                       sub_categories_df, sub_sub_categories_df))
  /\ UNCHANGED <<op, arg, typed>>
  /\ TablesUnchanged
  /\ SessionUnchanged

NextFind == ChooseLevels \/ CallFindCategoryIds

SpecFind == InitFind /\ [][NextFind]_vars

\* Some row of the table has the id and the parent id given.
C17_Under(table, id, parent_id) ==
  \E k \in 1..Len(table.rows) :
    table.rows[k].id = id /\ table.rows[k].parent = parent_id

C18_Profile ==
  IF ret.in.platform # NULL /\ DictHas(PLATFORM_MAPPINGS, ret.in.platform.s)
  THEN DictGet(PLATFORM_MAPPINGS, ret.in.platform.s)
  ELSE <<>>

C18_Same(a, b) == Lower(a) = Lower(b)

\* The synonyms of a profile entry that equal some source column,
\* case-insensitively, in the order of the entry's list.
C18_Hits(entry) ==
  SelectSeq(entry[2], LAMBDA synonym :
    \E k \in 1..Len(ret.in.source_columns) : C18_Same(ret.in.source_columns[k], synonym))

\* The source column, as spelled in the file, equal to the synonym.
C18_Column(synonym) ==
  ret.in.source_columns[CHOOSE k \in 1..Len(ret.in.source_columns) :
    /\ C18_Same(ret.in.source_columns[k], synonym)
    /\ \A j \in 1..(k - 1) : ~C18_Same(ret.in.source_columns[j], synonym)]

\* The profile maps the field.
C18_ByProfile(field) ==
  \E e \in 1..Len(C18_Profile) : C18_Profile[e][1] = field /\ C18_Hits(C18_Profile[e]) # <<>>

\* C18: suggest_mapping maps every field of the platform profile that has a
\* synonym among the source columns (case-insensitively) to the source column
\* of the earliest such synonym, in the column's own spelling, never to what
\* the fuzzy fallback would give; every other target field is mapped by the
\* fuzzy fallback or left out, and so is every target field when there is no
\* platform profile.
C18_ProfileBeforeFuzzy ==
  ret.t = "suggest_mapping" =>
    /\ \A e \in 1..Len(C18_Profile) :
         C18_Hits(C18_Profile[e]) # <<>> =>
           /\ DictHas(ret.out, C18_Profile[e][1])
           /\ DictGet(ret.out, C18_Profile[e][1]) = C18_Column(C18_Hits(C18_Profile[e])[1])
    /\ \A f \in Range(ALL_SALAAZ_COLUMNS) :
         ~C18_ByProfile(f) =>
           IF Truthy(_fuzzy_match_column(f, ret.in.source_columns))
           THEN /\ DictHas(ret.out, f)
                /\ DictGet(ret.out, f) = _fuzzy_match_column(f, ret.in.source_columns).s
           ELSE ~DictHas(ret.out, f)
    /\ \A k \in 1..Len(ret.out) :
         C18_ByProfile(ret.out[k][1]) \/ InList(ret.out[k][1], ALL_SALAAZ_COLUMNS)

\* With the shopify profile name goes to TITLE, the column of the synonym
\* 'Title', though 'Product Title' comes first in the file and the fuzzy
\* fallback would have taken Name.
C18_Witness ==
  /\ ret.t = "suggest_mapping"
  /\ ret.in.platform = StrVal(<<"s","h","o","p","i","f","y">>)
  /\ ret.in.source_columns = <<<<"P","r","o","d","u","c","t"," ","T","i","t","l","e">>, <<"N","a","m","e">>, <<"T","I","T","L","E">>>>
  /\ DictGet(ret.out, <<"n","a","m","e">>) = <<"T","I","T","L","E">>
  /\ _fuzzy_match_column(<<"n","a","m","e">>, ret.in.source_columns) = StrVal(<<"N","a","m","e">>)

(***************************************************************************)
(* Caller of _fuzzy_match_column: a file's columns and a field to match.   *)
(***************************************************************************)

FuzzyTargets ==
  {<<"n","a","m","e">>, <<"p","r","i","c","e">>, <<"b","r","a","n","d">>, <<"c","a","t","e","g","o","r","y","_","i","d">>, <<"s","k","u">>, <<"c","a","t","e","g","o","r","y","_","s","o","u","r","c","e">>}

InitFuzzy ==
  /\ NoTables
  /\ NoSession
  /\ op = "_fuzzy_match_column"
  /\ arg = <<>>
  /\ typed = 0
  /\ ret = NotCalled

CallFuzzyMatchColumn ==
  /\ op = "_fuzzy_match_column"
  /\ \E target \in FuzzyTargets :
       ret' = Returned("_fuzzy_match_column", [target |-> target, source_columns |-> arg],
                       _fuzzy_match_column(target, arg))
  /\ UNCHANGED <<op, arg, typed>>
  /\ TablesUnchanged
  /\ SessionUnchanged

NextFuzzy == AddSourceColumn \/ CallFuzzyMatchColumn

SpecFuzzy == InitFuzzy /\ [][NextFuzzy]_vars

\* The first source column of the call that returned, in file order, among
\* those at the positions given.
C19_First(positions) ==
  StrVal(ret.in.source_columns[CHOOSE k \in positions : \A j \in positions : k <= j])

C19_Positions == 1..Len(ret.in.source_columns)

C19_Exact == {k \in C19_Positions : Lower(ret.in.source_columns[k]) = Lower(ret.in.target)}

C19_Partial ==
  {k \in C19_Positions :
     \/ Contains(Lower(ret.in.source_columns[k]), Lower(ret.in.target))
     \/ Contains(Lower(ret.in.target), Lower(ret.in.source_columns[k]))}

C19_Keywords == IF DictHas(keywords, ret.in.target) THEN DictGet(keywords, ret.in.target) ELSE <<>>

C19_With(keyword) == {k \in C19_Positions : Contains(Lower(ret.in.source_columns[k]), keyword)}

C19_Occurring == {i \in 1..Len(C19_Keywords) : C19_With(C19_Keywords[i]) # {}}

\* C19: _fuzzy_match_column returns the first source column equal to the
\* target case-insensitively; if there is none, the first source column that
\* contains the target or is contained in it; if there is none, the first
\* source column containing the earliest keyword of the target's list that
\* occurs in any column; otherwise nothing.
C19_FuzzyPrecedence ==
  ret.t = "_fuzzy_match_column" =>
    ret.out =
      IF C19_Exact # {} THEN C19_First(C19_Exact)
      ELSE IF C19_Partial # {} THEN C19_First(C19_Partial)
      ELSE IF C19_Occurring # {}
           THEN C19_First(C19_With(C19_Keywords[CHOOSE i \in C19_Occurring :
                                                  \A j \in C19_Occurring : i <= j]))
           ELSE NULL

\* For name the keyword title, listed before product, decides for TITLE
\* though Product comes first in the file.
C19_Witness ==
  /\ ret.t = "_fuzzy_match_column"
  /\ ret.in.target = <<"n","a","m","e">>
  /\ ret.in.source_columns = <<<<"P","r","o","d","u","c","t">>, <<"T","I","T","L","E">>>>
  /\ ret.out = StrVal(<<"T","I","T","L","E">>)

\* For category_id the column id, contained in the target, is returned before
\* the keyword type, which the first column contains, is tried.
C19_StrongerRuleWitness ==
  /\ ret.t = "_fuzzy_match_column"
  /\ ret.in.target = <<"c","a","t","e","g","o","r","y","_","i","d">>
  /\ ret.in.source_columns = <<<<"T","y","p","e">>, <<"i","d">>>>
  /\ ret.out = StrVal(<<"i","d">>)

\* The attributes of source row i of the call that returned: its non-empty
\* values in the columns whose name contains a variant keyword.
C20_Attrs(i) == RowAttrs(ret.in.df, VariantColumns(ret.in.df), i, <<>>)

C20_Value(k) == ret.out.data[<<"v","a","r","i","a","n","t","_","a","t","t","r","i","b","u","t","e","s">>][k]

\* C20: in the table transform_data returns the variant_attributes of every
\* row is null or the JSON object of the non-empty values the source row has
\* in the variant columns; a value the mapping copied into variant_attributes
\* does not survive.
C20_VariantAttributesAreJsonOrNull ==
  ret.t = "transform_data" =>
    \A k \in 1..Rows(ret.out) :
      \/ C20_Value(k) = NULL
      \/ C20_Value(k) = StrVal(json_dumps(C20_Attrs(ret.out.index[k] + 1)))

\* C20 holds of the calls whose source table has a variant column: there the
\* value is the JSON object when the row has an attribute and null otherwise.
C20_VariantColumnsOverwrite ==
  (ret.t = "transform_data" /\ VariantColumns(ret.in.df) # <<>>) =>
    \A k \in 1..Rows(ret.out) :
      C20_Value(k) = IF C20_Attrs(ret.out.index[k] + 1) = <<>> THEN NULL
                     ELSE StrVal(json_dumps(C20_Attrs(ret.out.index[k] + 1)))

\* A returned row with the JSON object of its Size.
C20_JsonWitness ==
  /\ ret.t = "transform_data"
  /\ Rows(ret.out) >= 1
  /\ C20_Value(1) = StrVal(<<"{", "\"", "s", "i", "z", "e", "\"", ":", " ", "\"", "L", "\"", "}">>)

\* A returned row whose variant_attributes is the cell of the mapped source
\* column, in a table with no variant column.
C20_MappedValueSurvives ==
  /\ ret.t = "transform_data"
  /\ VariantColumns(ret.in.df) = <<>>
  /\ Rows(ret.out) >= 1
  /\ C20_Value(1) = StrVal(<<"R","e","d">>)
  /\ C20_Value(1) = C8_Mapped(<<"v","a","r","i","a","n","t","_","a","t","t","r","i","b","u","t","e","s">>, ret.out.index[1] + 1)

(***************************************************************************)
(* main(): the table transform_data returned is handed to                  *)
(* validate_salaaz_data.                                                   *)
(***************************************************************************)

\* An export of names, descriptions and prices.
PricedColumns ==
  <<<<"n","a","m","e">>, <<"d","e","s","c","r","i","p","t","i","o","n">>, <<"p","r","i","c","e">>>>

PricedRows ==
  {<<StrVal(<<"M","u","g">>), StrVal(<<"B","i","g">>), price>> :
     price \in {StrVal(<<"0",".","0","0","0","0","1">>), StrVal(<<"1",".","2",".","3">>), StrVal(<<"$","1",",","2","3","4",".","5","6">>), IntVal(5), NULL}}

ConvertRows(columns) == IF columns = PricedColumns THEN PricedRows ELSE RowChoices(columns)

InitConvert ==
  /\ \/ /\ categories_df = NULL
        /\ sub_categories_df = NULL
        /\ sub_sub_categories_df = NULL
     \/ /\ categories_df = SampleCategories
        /\ sub_categories_df = SampleSubCategories
        /\ sub_sub_categories_df = SampleSubSubCategories
  /\ \E columns \in {ShopifyColumns, PlainColumns, BareColumns, PricedColumns} :
       df = FrameOf(columns, <<>>)
  /\ platform \in PlatformChoices
  /\ mapping \in MappingChoices(df.columns, platform)
  /\ op = "transform_data"
  /\ arg = NotCalled
  /\ typed = 0
  /\ ret = NotCalled
  /\ calls = 0
  /\ first = NotCalled

\* The file has one more row.
AddConvertRow ==
  /\ Rows(df) < MaxRows
  /\ \E row \in ConvertRows(df.columns) : df' = FrameOf(df.columns, Append(RowsOf(df), row))
  /\ ret' = NotCalled
  /\ arg' = NotCalled
  /\ calls' = 0
  /\ first' = NotCalled
  /\ UNCHANGED <<mapping, platform, op, typed>>
  /\ TablesUnchanged

\* validation_result = converter.validate_salaaz_data(transformed_df)
ValidateTransformed ==
  /\ ret.t = "transform_data"
  /\ arg' = Returned("validate_salaaz_data", ret.out, validate_salaaz_data(ret.out))
  /\ UNCHANGED <<df, mapping, platform, op, typed, ret, calls, first>>
  /\ TablesUnchanged

NextConvert == AddConvertRow \/ CallTransformData \/ ValidateTransformed

SpecConvert == InitConvert /\ [][NextConvert]_vars

C21_PriceWarningText == <<" ","r","o","w","s"," ","h","a","v","e"," ","i","n","v","a","l","i","d"," ","p","r","i","c","e"," ","f","o","r","m","a","t">>

\* The warning is the one of the price check: a count and the text.
C21_IsPriceWarning(w) ==
  /\ Len(w) > Len(C21_PriceWarningText)
  /\ SubSeq(w, Len(w) - Len(C21_PriceWarningText) + 1, Len(w)) = C21_PriceWarningText

\* C21: validate_salaaz_data applied to the table transform_data returned
\* gives a report with no invalid-price warning, and every price of that
\* table is null or a string float() accepts.
C21_TransformedPricesAreValid ==
  arg.t = "validate_salaaz_data" =>
    /\ arg.out # RAISED
    /\ \A k \in 1..Len(arg.out.warnings) : ~C21_IsPriceWarning(arg.out.warnings[k])
    /\ \A i \in 1..Rows(arg.in) :
         \/ arg.in.data[<<"p","r","i","c","e">>][i] = NULL
         \/ /\ arg.in.data[<<"p","r","i","c","e">>][i].t = "str"
            /\ FloatAccepts(arg.in.data[<<"p","r","i","c","e">>][i])

\* The report on a table of two rows: the price 0.00001 came out as 1e-05,
\* which float() accepts, and the price 1.2.3 as null.
C21_Witness ==
  /\ arg.t = "validate_salaaz_data"
  /\ ret.in.df.columns = PricedColumns
  /\ ret.in.df.data[<<"p","r","i","c","e">>] = <<StrVal(<<"0",".","0","0","0","0","1">>), StrVal(<<"1",".","2",".","3">>)>>
  /\ arg.in.data[<<"p","r","i","c","e">>] = <<StrVal(<<"1","e","-","0","5">>), NULL>>
  /\ arg.out # RAISED
  /\ \A k \in 1..Len(arg.out.warnings) : ~C21_IsPriceWarning(arg.out.warnings[k])
====
